---- MODULE Spec2Model ----
(***************************************************************************)
(* Model of draft_tool.py: the fantasy-baseball draft assistant.           *)
(*                                                                         *)
(* Numbers.  Python floats are held as fixed-point integers:               *)
(*   - weekly counting values (R, HR, RBI, SB, SO, TB) in hundredths       *)
(*     (a season total t gives t/25 per week = 4t hundredths, exactly);    *)
(*   - OBP values in units of 0.00001 (a player's OBP field is given in    *)
(*     thousandths, 0.312 -> 312);                                         *)
(*   - probabilities and erf values in millionths.                         *)
(* Names are sequences of one-character strings, so that str.lower() and   *)
(* the substring test of the search command are computed, not assumed.     *)
(***************************************************************************)
EXTENDS Integers, Sequences, FiniteSets, TLC

\* ------------------------------------------------------------------------
\* CONSTANTS (draft_tool.py, lines 17-57)
\* ------------------------------------------------------------------------

NUM_WEEKS == 25
NUM_ROSTER_SPOTS == 9

\* The seven scoring categories, in the order get_expected_wins visits them.
Cats == <<"R", "HR", "RBI", "SB", "SO", "TB", "OBP">>

\* The order in which show_category_values visits the categories.
CatsShown == <<"R", "HR", "RBI", "SO", "TB", "SB", "OBP">>

CatSet == {Cats[i] : i \in DOMAIN Cats}

\* Fixed-point units per 1.0 of a category's weekly value.
CountScale == 100
ObpScale == 100000
\* Units of a player's OBP field (thousandths) per 1.0.
ObpField == 1000

\* Weekly standard deviations: 6.03, 2.93, 6.72, 2.57, 7.45, 15.94, 0.04.
WEEKLY_SD ==
    [R |-> 603, HR |-> 293, RBI |-> 672, SB |-> 257, SO |-> 745,
     TB |-> 1594, OBP |-> 4000]

\* League average weekly totals: 28.96, 8.02, 27.86, 4.74, 50.11, 88.87, 0.32.
LEAGUE_AVG_WEEKLY ==
    [R |-> 2896, HR |-> 802, RBI |-> 2786, SB |-> 474, SO |-> 5011,
     TB |-> 8887, OBP |-> 32000]

\* Python's round() of the non-negative rational n/d: nearest, ties to even.
Round(n, d) ==
    LET q == n \div d
        r == n % d
    IN  IF 2 * r > d THEN q + 1
        ELSE IF 2 * r < d THEN q
        ELSE IF q % 2 = 0 THEN q ELSE q + 1

\* SCALE_FACTOR = 1.263, in thousandths.
SCALE_FACTOR == 1263

\* REPLACEMENT_LEVEL: round(x * SCALE_FACTOR) of the base stats, given in
\* tenths (505.5, 60.8, 16.8, 60.1, 113.1, 185.9, 8.8); OBP is 0.312.
REPLACEMENT_LEVEL ==
    [PA  |-> Round(5055 * SCALE_FACTOR, 10000),
     R   |-> Round(608 * SCALE_FACTOR, 10000),
     HR  |-> Round(168 * SCALE_FACTOR, 10000),
     RBI |-> Round(601 * SCALE_FACTOR, 10000),
     SO  |-> Round(1131 * SCALE_FACTOR, 10000),
     TB  |-> Round(1859 * SCALE_FACTOR, 10000),
     SB  |-> Round(88 * SCALE_FACTOR, 10000),
     OBP |-> 312]

\* No category taken as lower-is-better.
NEGATIVE_CATS_Empty == {}

\* Categories where lower is better.
NEGATIVE_CATS == {"SO"}

\* ------------------------------------------------------------------------
\* MATH HELPERS (lines 63-82)
\* ------------------------------------------------------------------------

\* 1.0 as a probability (millionths).
ProbOne == 1000000

\* math.erf at k/64 for k = 0..256, in millionths (entry k+1 is erf(k/64)).
ErfStep == 64
ErfTable ==
    <<
      0, 17629, 35250, 52854, 70432, 87976, 105476, 122926, 140316,
      157639, 174885, 192047, 209118, 226088, 242952, 259700, 276326,
      292823, 309184, 325401, 341469, 357380, 373129, 388710, 404117,
      419344, 434387, 449240, 463898, 478357, 492613, 506662, 520500,
      534123, 547528, 560713, 573674, 586410, 598917, 611195, 623241,
      635054, 646633, 657977, 669085, 679957, 690592, 700992, 711156,
      721084, 730777, 740237, 749464, 758460, 767226, 775763, 784075,
      792162, 800028, 807674, 815102, 822317, 829319, 836113, 842701,
      849086, 855272, 861261, 867058, 872666, 878088, 883327, 888388,
      893274, 897990, 902537, 906922, 911146, 915215, 919132, 922900,
      926524, 930008, 933355, 936569, 939653, 942613, 945450, 948170,
      950775, 953270, 955657, 957941, 960124, 962210, 964203, 966105,
      967920, 969652, 971302, 972875, 974372, 975798, 977154, 978444,
      979670, 980834, 981940, 982990, 983985, 984929, 985824, 986672,
      987474, 988233, 988952, 989631, 990272, 990878, 991450, 991990,
      992499, 992979, 993431, 993857, 994258, 994635, 994989, 995322,
      995635, 995929, 996205, 996464, 996706, 996934, 997147, 997346,
      997533, 997707, 997870, 998023, 998165, 998298, 998422, 998537,
      998645, 998745, 998839, 998926, 999007, 999082, 999152, 999217,
      999277, 999333, 999385, 999433, 999478, 999519, 999558, 999593,
      999626, 999656, 999684, 999710, 999734, 999756, 999776, 999795,
      999812, 999828, 999842, 999856, 999868, 999879, 999890, 999899,
      999908, 999916, 999924, 999930, 999937, 999942, 999947, 999952,
      999956, 999960, 999964, 999967, 999970, 999973, 999976, 999978,
      999980, 999982, 999984, 999985, 999987, 999988, 999989, 999990,
      999991, 999992, 999993, 999993, 999994, 999995, 999995, 999996,
      999996, 999997, 999997, 999997, 999997, 999998, 999998, 999998,
      999998, 999999, 999999, 999999, 999999, 999999, 999999, 999999,
      999999, 999999, 999999, 1000000, 1000000, 1000000, 1000000,
      1000000, 1000000, 1000000, 1000000, 1000000, 1000000, 1000000,
      1000000, 1000000, 1000000, 1000000, 1000000, 1000000, 1000000,
      1000000, 1000000, 1000000, 1000000, 1000000, 1000000, 1000000,
      1000000, 1000000, 1000000, 1000000
    >>

\* math.erf(n/d) for n >= 0, d > 0: the table, linearly interpolated.
ErfPos(n, d) ==
    LET k == (ErfStep * n) \div d
        r == (ErfStep * n) % d
    IN  IF k + 1 >= Len(ErfTable) THEN ProbOne
        ELSE ErfTable[k + 1] + ((ErfTable[k + 2] - ErfTable[k + 1]) * r) \div d

\* math.erf(n/d) for d # 0; erf is odd, and n/d = (-n)/(-d).
Erf(n, d) ==
    LET num == IF d > 0 THEN n ELSE 0 - n
        den == IF d > 0 THEN d ELSE 0 - d
    IN  IF num >= 0 THEN ErfPos(num, den) ELSE 0 - ErfPos(0 - num, den)

\* The upper tail in place of the lower: 0.5 * (1 - erf(z / sqrt(2))).
normal_cdf_Upper(z) == (ProbOne - Erf(z.num, 2 * z.den)) \div 2

\* A z-score is held as the pair [num, den] standing for num / (den * sqrt(2)).
\* normal_cdf(z) = 0.5 * (1 + erf(z / sqrt(2))), and z / sqrt(2) = num / (2 den).
normal_cdf(z) == (ProbOne + Erf(z.num, 2 * z.den)) \div 2

\* The two directions taken for each other.
win_probability_Swapped(my_mean, opp_mean, sd, lower_is_better) ==
    LET z == IF lower_is_better
             THEN [num |-> my_mean - opp_mean, den |-> sd]
             ELSE [num |-> opp_mean - my_mean, den |-> sd]
    IN  normal_cdf(z)

\* win_probability(my_mean, opp_mean, sd, lower_is_better); the three values
\* are in the same fixed-point unit.  sd is not checked: a negative sd is
\* divided by like any other, and sd = 0 raises ZeroDivisionError (see
\* WinProbabilityRaises), so the operator is applied to sd # 0 only.
win_probability(my_mean, opp_mean, sd, lower_is_better) ==
    LET z == IF lower_is_better
             THEN [num |-> opp_mean - my_mean, den |-> sd]
             ELSE [num |-> my_mean - opp_mean, den |-> sd]
    IN  normal_cdf(z)

\* The divisions of lines 79 and 81 raise ZeroDivisionError when sd * sqrt(2)
\* is 0.0.
WinProbabilityRaises(sd) == sd = 0

\* ------------------------------------------------------------------------
\* Strings (str.lower, the `in` substring test)
\* ------------------------------------------------------------------------

UpperChars ==
    <<"A", "B", "C", "D", "E", "F", "G", "H", "I", "J", "K", "L", "M",
      "N", "O", "P", "Q", "R", "S", "T", "U", "V", "W", "X", "Y", "Z",
      "À", "Á", "Â", "Ã", "Ä", "Å", "Æ", "Ç", "È", "É", "Ê", "Ë", "Ì",
      "Í", "Î", "Ï", "Ð", "Ñ", "Ò", "Ó", "Ô", "Õ", "Ö", "Ø", "Ù", "Ú",
      "Û", "Ü", "Ý", "Þ">>
LowerChars ==
    <<"a", "b", "c", "d", "e", "f", "g", "h", "i", "j", "k", "l", "m",
      "n", "o", "p", "q", "r", "s", "t", "u", "v", "w", "x", "y", "z",
      "à", "á", "â", "ã", "ä", "å", "æ", "ç", "è", "é", "ê", "ë", "ì",
      "í", "î", "ï", "ð", "ñ", "ò", "ó", "ô", "õ", "ö", "ø", "ù", "ú",
      "û", "ü", "ý", "þ">>

\* The other characters of the model: the printable characters up to U+00FF
\* that str.lower() leaves as they are, lower-case letters among them (a TLA+ string cannot hold a backquote;
\* the double quote and the backslash are left out with it).
OtherChars ==
    <<" ", "!", "#", "$", "%", "&", "'", "(", ")", "*", "+", ",", "-",
      ".", "/", "0", "1", "2", "3", "4", "5", "6", "7", "8", "9", ":",
      ";", "<", "=", ">", "?", "@", "[", "]", "^", "_", "a", "b", "c",
      "d", "e", "f", "g", "h", "i", "j", "k", "l", "m", "n", "o", "p",
      "q", "r", "s", "t", "u", "v", "w", "x", "y", "z", "{", "|", "}",
      "~", "¡", "¢", "£", "¤", "¥", "¦", "§", "¨", "©", "ª", "«", "¬",
      "®", "¯", "°", "±", "²", "³", "´", "µ", "¶", "·", "¸", "¹", "º",
      "»", "¼", "½", "¾", "¿", "×", "ß", "à", "á", "â", "ã", "ä", "å",
      "æ", "ç", "è", "é", "ê", "ë", "ì", "í", "î", "ï", "ð", "ñ", "ò",
      "ó", "ô", "õ", "ö", "÷", "ø", "ù", "ú", "û", "ü", "ý", "þ", "ÿ">>

\* The characters names and typed words are made of.
Alphabet ==
    {UpperChars[k] : k \in DOMAIN UpperChars}
        \cup {OtherChars[k] : k \in DOMAIN OtherChars}

\* str.lower() of each character of the alphabet: an upper-case letter,
\* accented or not, maps to its lower-case letter, every other character is
\* left alone.
LowerOf ==
    [c \in Alphabet |->
        IF \E k \in DOMAIN UpperChars : UpperChars[k] = c
        THEN LowerChars[CHOOSE k \in DOMAIN UpperChars : UpperChars[k] = c]
        ELSE c]

\* str.lower() of one character
LowerChar(c) == LowerOf[c]

\* s.lower()
lower(s) == [k \in DOMAIN s |-> LowerChar(s[k])]

\* `term in s` for strings: term occurs in s as a contiguous substring.
IsSubstring(term, s) ==
    \E k \in 0..(Len(s) - Len(term)) : SubSeq(s, k + 1, k + Len(term)) = term

\* ------------------------------------------------------------------------
\* PLAYER CLASS (lines 89-131)
\* ------------------------------------------------------------------------

\* Player.__init__: the fields of the input row and the weekly projections.
\* zTotal is only ever printed and is left out.
Player(data) ==
    [name |-> data.Name, pa |-> data.PA, r |-> data.R, hr |-> data.HR,
     rbi |-> data.RBI, so |-> data.SO, tb |-> data.TB, sb |-> data.SB,
     obp |-> data.OBP,
     weekly |->
        [R   |-> (data.R * CountScale) \div NUM_WEEKS,
         HR  |-> (data.HR * CountScale) \div NUM_WEEKS,
         RBI |-> (data.RBI * CountScale) \div NUM_WEEKS,
         SB  |-> (data.SB * CountScale) \div NUM_WEEKS,
         SO  |-> (data.SO * CountScale) \div NUM_WEEKS,
         TB  |-> (data.TB * CountScale) \div NUM_WEEKS,
         OBP |-> data.OBP * (ObpScale \div ObpField)]]

create_replacement_player ==
    Player([Name |-> <<"R", "E", "P", "L", "A", "C", "E", "M", "E", "N", "T">>,
            PA  |-> REPLACEMENT_LEVEL.PA,
            R   |-> REPLACEMENT_LEVEL.R,
            HR  |-> REPLACEMENT_LEVEL.HR,
            RBI |-> REPLACEMENT_LEVEL.RBI,
            SO  |-> REPLACEMENT_LEVEL.SO,
            TB  |-> REPLACEMENT_LEVEL.TB,
            SB  |-> REPLACEMENT_LEVEL.SB,
            OBP |-> REPLACEMENT_LEVEL.OBP])

\* ------------------------------------------------------------------------
\* ROSTER CLASS (lines 138-206): the methods as functions of the roster's
\* player list ps (a sequence of Player records) and its num_spots.
\* ------------------------------------------------------------------------

\* The sum of a sequence of the fixed-point numbers (hundredths, millionths)
\* in which the session is modelled: exact, where the floats of the code are
\* rounded at every addition.  The float sum of the code is the operator sum
\* below, which FloatProjections uses.
RECURSIVE SumSeq(_)
SumSeq(s) == IF s = <<>> THEN 0 ELSE Head(s) + SumSeq(Tail(s))

\* Roster.replacement
replacement == create_replacement_player

\* The projections without the replacement players of the open spots.
get_weekly_projections_NoFill(ps, spots) ==
    [cat \in CatSet |->
        IF cat = "OBP"
        THEN (SumSeq([k \in DOMAIN ps |-> ps[k].obp]) * (ObpScale \div ObpField))
                 \div spots
        ELSE SumSeq([k \in DOMAIN ps |-> ps[k].weekly[cat]])]

\* The OBP weighted by plate appearances.
get_weekly_projections_PAWeighted(ps, spots) ==
    LET num_replacement == spots - Len(ps)
        total(cat) == SumSeq([k \in DOMAIN ps |-> ps[k].weekly[cat]])
                      + num_replacement * replacement.weekly[cat]
        on_base == SumSeq([k \in DOMAIN ps |-> ps[k].obp * ps[k].pa])
                   + num_replacement * replacement.obp * replacement.pa
        pa_sum == SumSeq([k \in DOMAIN ps |-> ps[k].pa])
                  + num_replacement * replacement.pa
    IN  [cat \in CatSet |->
            IF cat = "OBP"
            THEN (on_base * (ObpScale \div ObpField)) \div pa_sum
            ELSE total(cat)]

\* Every spot filled with a replacement player, the drafted ones too.
get_weekly_projections_FillsAll(ps, spots) ==
    LET total(cat) == SumSeq([k \in DOMAIN ps |-> ps[k].weekly[cat]])
                      + spots * replacement.weekly[cat]
        obp_sum == SumSeq([k \in DOMAIN ps |-> ps[k].obp])
                   + spots * replacement.obp
    IN  [cat \in CatSet |->
            IF cat = "OBP"
            THEN (obp_sum * (ObpScale \div ObpField)) \div spots
            ELSE total(cat)]

\* Roster.get_weekly_projections (lines 157-181): the OBP is the mean over
\* all num_spots spots of the players' OBP fields.
get_weekly_projections(ps, spots) ==
    LET num_drafted == Len(ps)
        num_replacement == spots - num_drafted
        total(cat) == SumSeq([k \in DOMAIN ps |-> ps[k].weekly[cat]])
                      + num_replacement * replacement.weekly[cat]
        obp_sum == SumSeq([k \in DOMAIN ps |-> ps[k].obp])
                   + num_replacement * replacement.obp
    IN  [cat \in CatSet |->
            IF cat = "OBP"
            THEN (obp_sum * (ObpScale \div ObpField)) \div spots
            ELSE total(cat)]

\* Roster.get_expected_wins, lines 191-206: the win probability of each
\* category of the projections, and their sum.
ExpectedWinsOf(projections) ==
    LET p_win(cat) == win_probability(projections[cat], LEAGUE_AVG_WEEKLY[cat],
                                      WEEKLY_SD[cat], cat \in NEGATIVE_CATS)
    IN  [cat \in CatSet \cup {"TOTAL"} |->
            IF cat = "TOTAL"
            THEN SumSeq([k \in DOMAIN Cats |-> p_win(Cats[k])])
            ELSE p_win(cat)]

get_expected_wins(ps, spots) ==
    ExpectedWinsOf(get_weekly_projections(ps, spots))

\* add_player without its capacity check.
add_player_NoCheck(ps, spots, player) ==
    [raised |-> FALSE, players |-> Append(ps, player)]

add_player(ps, spots, player) ==
    IF Len(ps) >= spots
    THEN [raised |-> TRUE, players |-> ps]
    ELSE [raised |-> FALSE, players |-> Append(ps, player)]

\* list.pop(i): the list without its i-th element.
PopAt(ps, i) == SubSeq(ps, 1, i - 1) \o SubSeq(ps, i + 1, Len(ps))

\* pop(0) in place of pop(): the first element goes, not the last.
PopLast_First(ps) == SubSeq(ps, 2, Len(ps))

\* list.pop(): the list without its last element.
PopLast(ps) == SubSeq(ps, 1, Len(ps) - 1)

\* Roster.remove_player; names[k] is the name of the k-th rostered player.
\* The first player whose name equals player_name (case-sensitively) goes.
remove_player(ps, names, player_name) ==
    IF \E k \in DOMAIN ps : names[k] = player_name
    THEN LET i == CHOOSE k \in DOMAIN ps :
                     /\ names[k] = player_name
                     /\ \A j \in 1..(k - 1) : names[j] # player_name
         IN  [found |-> TRUE, players |-> PopAt(ps, i)]
    ELSE [found |-> FALSE, players |-> ps]

\* ------------------------------------------------------------------------
\* PYTHON FLOATS: IEEE 754 binary64, every operation rounded to the nearest
\* float, ties to the even mantissa.  The weekly rates (lines 103-108), the
\* sums and the mean of get_weekly_projections (lines 172-179) are floats.
\* ------------------------------------------------------------------------

\* A natural number is written as the sequence of its binary digits, the
\* least significant first and the last one a 1; zero is <<>>.
RECURSIVE Bits(_)
Bits(n) == IF n = 0 THEN <<>> ELSE <<n % 2>> \o Bits(n \div 2)

\* The digits without the zeros at the most significant end.
Trim(bs) ==
    IF \A k \in DOMAIN bs : bs[k] = 0 THEN <<>>
    ELSE SubSeq(bs, 1, CHOOSE k \in DOMAIN bs :
                           bs[k] = 1 /\ \A j \in (k + 1)..Len(bs) : bs[j] = 0)

\* The digit of bs at place k, 0 beyond its last one.
BitAt(bs, k) == IF k <= Len(bs) THEN bs[k] ELSE 0

\* The places lo..hi of a + b + carry, and the carry out of them: the lower
\* half of the places first, its carry into the upper half.
RECURSIVE AddPlaces(_, _, _, _, _)
AddPlaces(a, b, lo, hi, carry) ==
    IF lo > hi THEN [s |-> <<>>, c |-> carry]
    ELSE IF lo = hi
    THEN LET t == BitAt(a, lo) + BitAt(b, lo) + carry
         IN  [s |-> <<t % 2>>, c |-> t \div 2]
    ELSE LET mid == (lo + hi) \div 2
             low == AddPlaces(a, b, lo, mid, carry)
             high == AddPlaces(a, b, mid + 1, hi, low.c)
         IN  [s |-> low.s \o high.s, c |-> high.c]

\* a + b + carry
BitsAdd(a, b, carry) ==
    LET n == IF Len(a) > Len(b) THEN Len(a) ELSE Len(b)
        r == AddPlaces(a, b, 1, n, carry)
    IN  IF r.c = 1 THEN Append(r.s, 1) ELSE r.s

\* bs * 2^n
ShiftLeft(bs, n) == IF bs = <<>> THEN <<>> ELSE [k \in 1..n |-> 0] \o bs

\* n * bs, for a natural number n of the model checker
RECURSIVE BitsTimes(_, _)
BitsTimes(n, bs) ==
    IF n = 0 THEN <<>>
    ELSE BitsAdd(IF n % 2 = 1 THEN bs ELSE <<>>,
                 ShiftLeft(BitsTimes(n \div 2, bs), 1), 0)

\* Long division of the digits num[lo..hi] by d, from the most significant
\* digit down: the digits of the quotient, most significant first, and the
\* remainder; r is the remainder carried in from the digits above.
RECURSIVE BitsDivide(_, _, _, _, _)
BitsDivide(num, d, lo, hi, r) ==
    IF lo > hi THEN [q |-> <<>>, r |-> r]
    ELSE IF lo = hi
    THEN LET t == 2 * r + num[hi]
         IN  [q |-> <<t \div d>>, r |-> t % d]
    ELSE LET mid == (lo + hi) \div 2
             high == BitsDivide(num, d, mid + 1, hi, r)
             low == BitsDivide(num, d, lo, mid, high.r)
         IN  [q |-> high.q \o low.q, r |-> low.r]

\* The digits in the opposite order.
Reverse(bs) == [k \in 1..Len(bs) |-> bs[Len(bs) + 1 - k]]

\* a < b, for digits without leading zeros
BitsLess(a, b) ==
    \/ Len(a) < Len(b)
    \/ /\ Len(a) = Len(b)
       /\ \E k \in DOMAIN a :
             /\ a[k] < b[k]
             /\ \A j \in (k + 1)..Len(a) : a[j] = b[j]

\* The mantissa of a float has 53 binary digits.
MantissaBits == 53

\* Digits worked out beyond the mantissa before a quotient is rounded.
GuardBits == 2

\* A float that is not negative: m * 2^e, m of MantissaBits digits; 0.0 has
\* no digits.
FloatZero == [m |-> <<>>, e |-> 0]

\* The float nearest to (bs + f) * 2^e, where 0 < f < 1 when inexact holds
\* and f = 0 otherwise: the digits below the mantissa are dropped, and the
\* mantissa goes up by one when they are more than half of its last place,
\* or exactly half with the mantissa odd.  With inexact, bs must have more
\* digits than a mantissa.
Nearest(bs, e, inexact) ==
    IF bs = <<>> THEN FloatZero
    ELSE IF Len(bs) <= MantissaBits
    THEN [m |-> ShiftLeft(bs, MantissaBits - Len(bs)),
          e |-> e - (MantissaBits - Len(bs))]
    ELSE LET d == Len(bs) - MantissaBits
             kept == SubSeq(bs, d + 1, Len(bs))
             half == bs[d] = 1
             more == inexact \/ \E k \in 1..(d - 1) : bs[k] = 1
             up == half /\ (more \/ kept[1] = 1)
             m == IF up THEN BitsAdd(kept, <<1>>, 0) ELSE kept
         IN  IF Len(m) > MantissaBits
             THEN [m |-> SubSeq(m, 2, Len(m)), e |-> e + d + 1]
             ELSE [m |-> m, e |-> e + d]

\* x + y
FloatAdd(x, y) ==
    IF x.m = <<>> THEN y
    ELSE IF y.m = <<>> THEN x
    ELSE LET e == IF x.e < y.e THEN x.e ELSE y.e
         IN  Nearest(BitsAdd(ShiftLeft(x.m, x.e - e), ShiftLeft(y.m, y.e - e), 0),
                   e, FALSE)

\* n * x, for an int n >= 0: n is converted exactly and the product rounded.
FloatTimes(n, x) == Nearest(BitsTimes(n, x.m), x.e, FALSE)

\* The float nearest to bs * 2^e / d, for an int d > 0: as many digits of the
\* quotient as a mantissa and GuardBits more, then whether anything is left.
Quotient(bs, e, d) ==
    IF bs = <<>> THEN FloatZero
    ELSE LET shift == Len(Bits(d)) + MantissaBits + GuardBits
             num == ShiftLeft(bs, shift)
             qr == BitsDivide(num, d, 1, Len(num), 0)
         IN  Nearest(Trim(Reverse(qr.q)), e - shift, qr.r # 0)

\* a / b of two ints, a >= 0 and b > 0 (true division); also the float a
\* decimal literal a / b is read as.
IntOverInt(a, b) == Quotient(Bits(a), 0, b)

\* x / n, for a float x and an int n > 0
FloatOverInt(x, n) == Quotient(x.m, x.e, n)

\* x < y
FloatLess(x, y) ==
    IF y.m = <<>> THEN FALSE
    ELSE IF x.m = <<>> THEN TRUE
    ELSE x.e < y.e \/ (x.e = y.e /\ BitsLess(x.m, y.m))

\* sum(s) of Python 3.11: from the int 0, the elements added one after
\* another in the order of the sequence.
RECURSIVE sum(_)
sum(s) ==
    IF s = <<>> THEN FloatZero
    ELSE FloatAdd(sum(SubSeq(s, 1, Len(s) - 1)), s[Len(s)])

\* The season total of a counting category (lines 93-98).
SeasonTotal(p, cat) ==
    CASE cat = "R"   -> p.r
      [] cat = "HR"  -> p.hr
      [] cat = "RBI" -> p.rbi
      [] cat = "SB"  -> p.sb
      [] cat = "SO"  -> p.so
      [] cat = "TB"  -> p.tb

\* Player.weekly as the floats it holds (lines 103-110): the season total
\* over NUM_WEEKS, and float() of the OBP field, written in thousandths.
WeeklyFloat(p) ==
    [cat \in CatSet |->
        IF cat = "OBP" THEN IntOverInt(p.obp, ObpField)
        ELSE IntOverInt(SeasonTotal(p, cat), NUM_WEEKS)]

\* Roster.get_weekly_projections (lines 157-181) in the floats of the code:
\* sum() over the players in the order of the list, then the replacement
\* players' share added, and for OBP the division by num_spots.
FloatProjections(ps, spots) ==
    LET num_drafted == Len(ps)
        num_replacement == spots - num_drafted
        of(cat) ==
            FloatAdd(sum([k \in DOMAIN ps |-> WeeklyFloat(ps[k])[cat]]),
                     FloatTimes(num_replacement, WeeklyFloat(replacement)[cat]))
    IN  [cat \in CatSet |->
            IF cat = "OBP" THEN FloatOverInt(of(cat), spots) ELSE of(cat)]

\* ------------------------------------------------------------------------
\* Inputs: the rows a players file may hold, and the words typed at the prompt
\* ------------------------------------------------------------------------

\* Bounds of the model.
MaxSpots == 2
MaxPool == 4

Row(name, pa, r, hr, rbi, so, tb, sb, obp) ==
    [Name |-> name, PA |-> pa, R |-> r, HR |-> hr, RBI |-> rbi, SO |-> so,
     TB |-> tb, SB |-> sb, OBP |-> obp]

\* Rows of players files.  "Cy" and "Bo" have the same statistics; "al" and
\* "Al" differ only in letter case; two rows are both named "Al"; "Éd" has
\* exactly the replacement-level statistics, and an accented capital.
Universe ==
    <<Row(<<"C", "y">>, 600, 80, 20, 75, 100, 250, 15, 330),
      Row(<<"B", "o">>, 590, 80, 20, 75, 100, 250, 15, 330),
      Row(<<"a", "l">>, 450, 60, 10, 50, 170, 190, 5, 300),
      Row(<<"A", "l">>, 680, 115, 42, 110, 130, 340, 20, 390),
      Row(<<"A", "l">>, 620, 90, 25, 85, 110, 270, 30, 350),
      Row(<<"É", "d">>, 638, 77, 21, 76, 143, 235, 11, 312)>>

\* A file of two players.  "Lg" has the league-average weekly totals times
\* NUM_WEEKS, to the nearest whole number (724, 200.5, 696.5, 1252.75,
\* 2221.75, 118.5, and OBP 0.320); "Rn" is "Lg" with 25000 runs, 1000 a week.
LeagueFile ==
    <<Row(<<"L", "g">>, 5000, 724, 200, 696, 1253, 2222, 118, 320),
      Row(<<"R", "n">>, 5000, 25000, 200, 696, 1253, 2222, 118, 320)>>

\* The files: the windows of at most MaxPool consecutive rows of Universe,
\* and LeagueFile.
Files ==
    ({SubSeq(Universe, a, b) :
        a \in DOMAIN Universe, b \in DOMAIN Universe} \ {<<>>})
        \cup {LeagueFile}

PoolFiles == {f \in Files : Len(f) <= MaxPool}

\* A name that no row has.
NoSuchName == <<"Z", "e", "d">>

\* ------------------------------------------------------------------------
\* DRAFT TOOL (lines 254-461)
\* ------------------------------------------------------------------------

VARIABLES
    available,      \* DraftTool.available: the loaded Player objects
    num_spots,      \* Roster.num_spots
    players,        \* Roster.players: indices into available (object references)
    drafted_names,  \* DraftTool.drafted_names
    pc,             \* where the program is: in main before the first prompt,
                    \* at the "prompt", inside a command, or over
    last,           \* the command being run or last run, and its outcome
    pre,            \* players and drafted_names when that command started
    avail,          \* get_ranked_available: its local list `available`
    matches,        \* search: matches[:10]
    i,              \* index of the loop calling calculate_marginal_value
    current_wins,   \* calculate_marginal_value: its local current_wins
    ranked,         \* get_ranked_available: its list `ranked` (then its result)
    shown,          \* rows printed by top, search and cats
    cat_wins,       \* show_category_values: its local current_wins
    ci,             \* show_category_values: index of the category loop
    cj,             \* show_category_values: index of the player loop
    cat_values,     \* show_category_values: its local cat_values
    returned,       \* the last two results of get_ranked_available since the
                    \* roster or the drafted names last changed
    calc            \* a direct call of one of the functions, and its result

vars ==
    <<available, num_spots, players, drafted_names, pc, last, pre, avail,
      matches, i, current_wins, ranked, shown, cat_wins, ci, cj, cat_values,
      returned, calc>>

\* The Player objects of a list of references.
Objects(ps) == [k \in DOMAIN ps |-> available[ps[k]]]

\* The names of a list of references.
NamesOf(ps) == [k \in DOMAIN ps |-> available[ps[k]].name]

\* The names typed after draft / take / search: every pool name, as written
\* and in lower case, and a name no player has.
ArgNames ==
    {available[k].name : k \in DOMAIN available}
        \cup {lower(available[k].name) : k \in DOMAIN available}
        \cup {NoSuchName}

\* The program starts (line 469): DraftTool.__init__ has loaded the players
\* of the file, the roster is empty, nothing is drafted, nothing is printed.
\* Roster() takes NUM_ROSTER_SPOTS spots: 9 as the file has it, or a number
\* up to MaxSpots for a league configured with a small roster.
Init ==
    /\ \E f \in PoolFiles : available = [k \in DOMAIN f |-> Player(f[k])]
    /\ num_spots \in (1..MaxSpots) \cup {NUM_ROSTER_SPOTS}
    /\ players = <<>>
    /\ drafted_names = {}
    /\ pc = "main"
    /\ last = [action |-> "none", arg |-> <<>>, out |-> "none", ret |-> "none",
               word |-> <<>>]
    /\ pre = [players |-> <<>>, drafted_names |-> {}]
    /\ avail = <<>>
    /\ matches = <<>>
    /\ i = 0
    /\ current_wins = 0
    /\ ranked = <<>>
    /\ shown = <<>>
    /\ cat_wins = <<>>
    /\ ci = 0
    /\ cj = 0
    /\ cat_values = <<>>
    /\ returned = <<>>
    /\ calc = [op |-> "none"]

\* ---- draft_player / mark_drafted (lines 305-340) ----

\* The match without .lower(): names are compared as typed.
FirstMatch_CaseSensitive(player_name) ==
    IF \E k \in DOMAIN available : available[k].name = player_name
    THEN CHOOSE k \in DOMAIN available :
            /\ available[k].name = player_name
            /\ \A j \in 1..(k - 1) : available[j].name # player_name
    ELSE 0

\* The loop `for player in self.available: if player.name.lower() ==
\* player_name.lower()`: the index of the first such player, 0 when none.
FirstMatch(player_name) ==
    IF \E k \in DOMAIN available : lower(available[k].name) = lower(player_name)
    THEN CHOOSE k \in DOMAIN available :
            /\ lower(available[k].name) = lower(player_name)
            /\ \A j \in 1..(k - 1) :
                   lower(available[j].name) # lower(player_name)
    ELSE 0

\* The already-drafted check left out.
IsDrafted_Never(name, dn) == FALSE

\* `player.name in self.drafted_names`
IsDrafted(name, dn) == name \in dn

\* draft_player with lines 317 and 318 swapped: the name is added to
\* drafted_names before add_player is called.
draft_player_AddsNameFirst(player_name) ==
    LET m == FirstMatch(player_name)
        same(ret, out) ==
            [ret |-> ret, out |-> out, raised |-> FALSE,
             players |-> players, drafted_names |-> drafted_names]
    IN  IF m = 0 THEN same("False", "NotFound")
        ELSE IF IsDrafted(available[m].name, drafted_names)
        THEN same("False", "AlreadyDrafted")
        ELSE LET a == add_player(players, num_spots, m)
                 dn == drafted_names \cup {available[m].name}
             IN  IF a.raised
                 THEN [ret |-> "none", out |-> "RosterFull", raised |-> TRUE,
                       players |-> a.players, drafted_names |-> dn]
                 ELSE [ret |-> "True", out |-> "Drafted", raised |-> FALSE,
                       players |-> a.players, drafted_names |-> dn]

\* draft_player(player_name): what it returns (ret), what it reports (out),
\* whether add_player raised, and the roster and drafted names it leaves.
draft_player(player_name) ==
    LET m == FirstMatch(player_name)
        same(ret, out) ==
            [ret |-> ret, out |-> out, raised |-> FALSE,
             players |-> players, drafted_names |-> drafted_names]
    IN  IF m = 0 THEN same("False", "NotFound")
        ELSE IF IsDrafted(available[m].name, drafted_names)
        THEN same("False", "AlreadyDrafted")
        ELSE LET a == add_player(players, num_spots, m)
             IN  IF a.raised
                 THEN [ret |-> "none", out |-> "RosterFull", raised |-> TRUE,
                       players |-> a.players, drafted_names |-> drafted_names]
                 ELSE [ret |-> "True", out |-> "Drafted", raised |-> FALSE,
                       players |-> a.players,
                       drafted_names |-> drafted_names \cup {available[m].name}]

\* mark_drafted that marks the typed name when no player matches it.
mark_drafted_MarksUnknown(player_name) ==
    LET m == FirstMatch(player_name)
        same(ret, out) ==
            [ret |-> ret, out |-> out, raised |-> FALSE,
             players |-> players, drafted_names |-> drafted_names]
    IN  IF m = 0
        THEN [ret |-> "False", out |-> "NotFound", raised |-> FALSE,
              players |-> players,
              drafted_names |-> drafted_names \cup {player_name}]
        ELSE IF IsDrafted(available[m].name, drafted_names)
        THEN same("False", "AlreadyDrafted")
        ELSE [ret |-> "True", out |-> "Marked", raised |-> FALSE,
              players |-> players,
              drafted_names |-> drafted_names \cup {available[m].name}]

\* mark_drafted as a copy of draft_player: the player also joins the roster.
mark_drafted_AlsoRosters(player_name) ==
    LET m == FirstMatch(player_name)
        same(ret, out) ==
            [ret |-> ret, out |-> out, raised |-> FALSE,
             players |-> players, drafted_names |-> drafted_names]
    IN  IF m = 0 THEN same("False", "NotFound")
        ELSE IF IsDrafted(available[m].name, drafted_names)
        THEN same("False", "AlreadyDrafted")
        ELSE [ret |-> "True", out |-> "Marked", raised |-> FALSE,
              players |-> Append(players, m),
              drafted_names |-> drafted_names \cup {available[m].name}]

\* mark_drafted that assigns drafted_names = {name} instead of adding to it.
mark_drafted_Overwrites(player_name) ==
    LET m == FirstMatch(player_name)
        same(ret, out) ==
            [ret |-> ret, out |-> out, raised |-> FALSE,
             players |-> players, drafted_names |-> drafted_names]
    IN  IF m = 0 THEN same("False", "NotFound")
        ELSE IF IsDrafted(available[m].name, drafted_names)
        THEN same("False", "AlreadyDrafted")
        ELSE [ret |-> "True", out |-> "Marked", raised |-> FALSE,
              players |-> players,
              drafted_names |-> {available[m].name}]

\* mark_drafted(player_name)
mark_drafted(player_name) ==
    LET m == FirstMatch(player_name)
        same(ret, out) ==
            [ret |-> ret, out |-> out, raised |-> FALSE,
             players |-> players, drafted_names |-> drafted_names]
    IN  IF m = 0 THEN same("False", "NotFound")
        ELSE IF IsDrafted(available[m].name, drafted_names)
        THEN same("False", "AlreadyDrafted")
        ELSE [ret |-> "True", out |-> "Marked", raised |-> FALSE,
              players |-> players,
              drafted_names |-> drafted_names \cup {available[m].name}]

\* ---- the command loop (lines 404-461) ----

AtPrompt == pc = "prompt"

\* The command words of the if / elif chain (lines 418-444), as typed.
CommandWord ==
    [quit   |-> <<"q", "u", "i", "t">>,
     exit   |-> <<"e", "x", "i", "t">>,
     draft  |-> <<"d", "r", "a", "f", "t">>,
     take   |-> <<"t", "a", "k", "e">>,
     top    |-> <<"t", "o", "p">>,
     roster |-> <<"r", "o", "s", "t", "e", "r">>,
     cats   |-> <<"c", "a", "t", "s">>,
     search |-> <<"s", "e", "a", "r", "c", "h">>]

\* str.startswith
StartsWith(s, prefix) ==
    Len(prefix) <= Len(s) /\ SubSeq(s, 1, Len(prefix)) = prefix

\* The chain with startswith in place of ==: the first command word that
\* the typed word begins with.
Branch_Prefix(word) ==
    LET action == lower(word)
        order == <<"quit", "exit", "draft", "take", "top", "roster", "cats",
                   "search">>
        hits == {k \in DOMAIN order : StartsWith(action, CommandWord[order[k]])}
    IN  IF hits = {} THEN "unknown"
        ELSE order[CHOOSE k \in hits : \A j \in hits : k <= j]

\* action = parts[0].lower() (line 415) and the branch of the if / elif chain
\* that it takes; "unknown" is the final else (lines 459-461).
Branch(word) ==
    LET action == lower(word)
    IN  IF action = CommandWord.quit THEN "quit"
        ELSE IF action = CommandWord.exit THEN "exit"
        ELSE IF action = CommandWord.draft THEN "draft"
        ELSE IF action = CommandWord.take THEN "take"
        ELSE IF action = CommandWord.top THEN "top"
        ELSE IF action = CommandWord.roster THEN "roster"
        ELSE IF action = CommandWord.cats THEN "cats"
        ELSE IF action = CommandWord.search THEN "search"
        ELSE "unknown"

\* First words typed for draft and for no command: "Draft", "drafts" and
\* "help".
TypedWords ==
    {<<"D", "r", "a", "f", "t">>, <<"d", "r", "a", "f", "t", "s">>,
     <<"h", "e", "l", "p">>}

\* A command starts: it is recorded, with the first word typed and the state
\* it started from, and the locals and printed rows of the command before it
\* are gone.
BeginTyped(word, action, arg, out, ret) ==
    /\ last' = [action |-> action, arg |-> arg, out |-> out, ret |-> ret,
                word |-> word]
    /\ pre' = [players |-> players, drafted_names |-> drafted_names]

\* The same for a command typed as its own word; EOF and a direct call of
\* remove_player have no word.
Begin(action, arg, out, ret) ==
    BeginTyped(IF action \in DOMAIN CommandWord THEN CommandWord[action]
               ELSE <<>>,
               action, arg, out, ret)

ClearLocals ==
    /\ avail' = <<>>
    /\ matches' = <<>>
    /\ i' = 0
    /\ current_wins' = 0
    /\ ranked' = <<>>
    /\ shown' = <<>>
    /\ cat_wins' = <<>>
    /\ ci' = 0
    /\ cj' = 0
    /\ cat_values' = <<>>

\* The rankings returned are kept for as long as the roster and the drafted
\* names are what they were.
KeepReturned ==
    returned' = IF players' = players /\ drafted_names' = drafted_names
                THEN returned ELSE <<>>

\* get_ranked_available returns r: the result before it, if any, and r.
NoteReturned(r) ==
    returned' = IF returned = <<>> THEN <<r>>
                ELSE <<returned[Len(returned)], r>>

\* `draft <name>`: draft_player(arg).  A ValueError raised by add_player is
\* caught nowhere: it ends run_interactive.
CmdDraft(word, arg) ==
    /\ AtPrompt
    /\ Branch(word) = "draft"
    /\ LET d == draft_player(arg)
       IN  /\ BeginTyped(word, "draft", arg, d.out, d.ret)
           /\ players' = d.players
           /\ drafted_names' = d.drafted_names
           /\ pc' = IF d.raised THEN "crashed" ELSE "prompt"
    /\ ClearLocals
    /\ UNCHANGED <<calc, available, num_spots>>
    /\ KeepReturned

\* `take <name>`: mark_drafted(arg).
CmdTake(arg) ==
    /\ AtPrompt
    /\ LET d == mark_drafted(arg)
       IN  /\ Begin("take", arg, d.out, d.ret)
           /\ players' = d.players
           /\ drafted_names' = d.drafted_names
    /\ pc' = "prompt"
    /\ ClearLocals
    /\ UNCHANGED <<calc, available, num_spots>>
    /\ KeepReturned

\* Roster.remove_player(player_name), called on the tool's roster.
RemovePlayer(arg) ==
    /\ AtPrompt
    /\ LET d == remove_player(players, NamesOf(players), arg)
       IN  /\ Begin("remove", arg, IF d.found THEN "Removed" ELSE "None", "none")
           /\ players' = d.players
    /\ pc' = "prompt"
    /\ ClearLocals
    /\ UNCHANGED <<calc, available, num_spots, drafted_names>>
    /\ KeepReturned

\* ---- calculate_marginal_value (lines 270-287) ----

\* s[:n]
Take(s, n) == SubSeq(s, 1, IF n < Len(s) THEN n ELSE Len(s))

\* The early return taken one player too late (> in place of >=).
RosterIsFull_OffByOne(ps, spots) == Len(ps) > spots

\* The early return of calculate_marginal_value: the roster is full.
RosterIsFull(ps, spots) == Len(ps) >= spots

\* roster.get_expected_wins()['TOTAL'] of a list of references.
TotalWins(ps) == get_expected_wins(Objects(ps), num_spots)["TOTAL"]

\* The loop that calls calculate_marginal_value: get_ranked_available over
\* its list `available`, or the search command over matches[:10].
InMVLoop == pc \in {"rank", "search"}
LoopPc == IF last.action = "search" THEN "search" ELSE "rank"
Work == IF LoopPc = "rank" THEN avail ELSE matches

\* calculate_marginal_value returns mv for the player `player`: the caller
\* appends (player, mv) to ranked, or prints it, and moves on.
ReturnMV(player, mv) ==
    /\ IF LoopPc = "rank"
       THEN /\ ranked' = Append(ranked, <<player, mv>>)
            /\ shown' = shown
       ELSE /\ shown' = Append(shown, <<player, mv>>)
            /\ ranked' = ranked
    /\ i' = i + 1

\* Line 276-277: a full roster, return 0.0.
MVFull ==
    /\ InMVLoop
    /\ i <= Len(Work)
    /\ RosterIsFull(players, num_spots)
    /\ ReturnMV(Work[i], 0)
    /\ UNCHANGED <<calc, returned, available, num_spots, players, drafted_names, pc, last, pre,
                   avail, matches, current_wins, cat_wins, ci, cj, cat_values>>

\* Lines 280-283: current_wins is taken, the player is appended to the roster.
MVAppend ==
    /\ InMVLoop
    /\ i <= Len(Work)
    /\ ~RosterIsFull(players, num_spots)
    /\ current_wins' = TotalWins(players)
    /\ players' = Append(players, Work[i])
    /\ pc' = "mv"
    /\ UNCHANGED <<calc, returned, available, num_spots, drafted_names, last, pre, avail,
                   matches, i, ranked, shown, cat_wins, ci, cj, cat_values>>

\* Lines 284-287: new_wins is taken, the player is popped, the difference
\* is returned.
MVPop ==
    /\ pc = "mv"
    /\ LET new_wins == TotalWins(players)
       IN  ReturnMV(Work[i], new_wins - current_wins)
    /\ players' = PopLast(players)
    /\ current_wins' = 0
    /\ pc' = LoopPc
    /\ UNCHANGED <<calc, returned, available, num_spots, drafted_names, last, pre, avail,
                   matches, cat_wins, ci, cj, cat_values>>

\* ---- get_ranked_available (lines 289-303) ----

\* [p for p in self.available if p.name not in self.drafted_names]
Undrafted(dn) ==
    LET keep(k) == ~IsDrafted(available[k].name, dn)
    IN  SelectSeq([k \in DOMAIN available |-> k], keep)

\* The pair x put before the pairs of its own value.
InsertDesc_Unstable(x, s) ==
    LET n == Cardinality({k \in DOMAIN s : s[k][2] > x[2]})
    IN  SubSeq(s, 1, n) \o <<x>> \o SubSeq(s, n + 1, Len(s))

\* Insert the pair x into the list s, sorted by non-increasing value, behind
\* every pair whose value is at least x's.
InsertDesc(x, s) ==
    LET n == Cardinality({k \in DOMAIN s : s[k][2] >= x[2]})
    IN  SubSeq(s, 1, n) \o <<x>> \o SubSeq(s, n + 1, Len(s))

\* The sort left out.
SortDesc_None(s) == s

\* The sort without reverse=True: smallest value first.
RECURSIVE SortDesc_Ascending(_)
SortDesc_Ascending(s) ==
    IF s = <<>> THEN <<>>
    ELSE LET x == s[Len(s)]
             t == SortDesc_Ascending(SubSeq(s, 1, Len(s) - 1))
             n == Cardinality({k \in DOMAIN t : t[k][2] <= x[2]})
         IN  SubSeq(t, 1, n) \o <<x>> \o SubSeq(t, n + 1, Len(t))

\* list.sort(key=lambda x: x[1], reverse=True): stable, largest value first.
RECURSIVE SortDesc(_)
SortDesc(s) ==
    IF s = <<>> THEN <<>>
    ELSE InsertDesc(s[Len(s)], SortDesc(SubSeq(s, 1, Len(s) - 1)))

\* get_ranked_available is entered.
EnterRanked ==
    /\ avail' = Undrafted(drafted_names)
    /\ ranked' = <<>>
    /\ i' = 1
    /\ pc' = "rank"
    /\ matches' = <<>>
    /\ current_wins' = 0
    /\ shown' = <<>>
    /\ cat_wins' = <<>>
    /\ ci' = 0
    /\ cj' = 0
    /\ cat_values' = <<>>

\* ---- show_top_available (lines 342-357) ----

DigitChars == <<"0", "1", "2", "3", "4", "5", "6", "7", "8", "9">>

\* The characters of the alphabet that are digits to str.isdigit() and that
\* int() does not read.
SuperscriptChars == <<"¹", "²", "³">>

\* The decimal digits
IsDecimalChar(c) == \E d \in DOMAIN DigitChars : DigitChars[d] = c

\* str.isdigit() of each character of the alphabet
IsDigitOf ==
    [c \in Alphabet |->
        \/ IsDecimalChar(c)
        \/ \E d \in DOMAIN SuperscriptChars : SuperscriptChars[d] = c]

\* s.isdigit(): s is not empty and every character of it is a digit.
isdigit(s) ==
    /\ s # <<>>
    /\ \A k \in DOMAIN s : IsDigitOf[s[k]]

\* The longest string of digits int() converts: CPython's default limit
\* (sys.get_int_max_str_digits()), every digit counted, leading zeros too.
INT_MAX_STR_DIGITS == 4300

\* int(s) of a string that isdigit() holds of raises ValueError unless its
\* characters are all decimal digits, and no more of them than the limit.
IntRaises(s) ==
    \/ Len(s) > INT_MAX_STR_DIGITS
    \/ \E k \in DOMAIN s : ~IsDecimalChar(s[k])

\* The number a string of decimal digits is read as.
RECURSIVE Decimal(_)
Decimal(s) ==
    IF s = <<>> THEN 0
    ELSE 10 * Decimal(SubSeq(s, 1, Len(s) - 1))
         + ((CHOOSE d \in DOMAIN DigitChars : DigitChars[d] = s[Len(s)]) - 1)

\* int(s), for a string isdigit() holds of: the number, or the ValueError.
int(s) == IF IntRaises(s) THEN "ValueError" ELSE Decimal(s)

DefaultTop == 25

\* `n = int(arg) if arg.isdigit() else 25`: n, or the ValueError of int.
TopN(arg) == IF isdigit(arg) THEN int(arg) ELSE DefaultTop

\* Line 435 raises: arg.isdigit() holds and int(arg) raises ValueError.
TopRaises(arg) == isdigit(arg) /\ IntRaises(arg)

\* A number of one digit more than int() converts.
LongNumber == [k \in 1..(INT_MAX_STR_DIGITS + 1) |-> "1"]

\* What is typed after `top`: nothing, a number, a superscript digit, a
\* number too long for int().
TopArgs == {<<>>, <<"1">>, <<"²">>, LongNumber}

\* Whether line 435 raises, for each argument typed.
TopArgRaises == [arg \in TopArgs |-> TopRaises(arg)]

\* `top [n]`: show_top_available(n) calls get_ranked_available.  A ValueError
\* raised by int(arg) is caught nowhere: it ends run_interactive.
CmdTop(arg) ==
    /\ AtPrompt
    /\ IF TopArgRaises[arg]
       THEN /\ Begin("top", arg, "ValueError", "none")
            /\ ClearLocals
            /\ pc' = "crashed"
       ELSE /\ Begin("top", arg, "none", "none")
            /\ EnterRanked
    /\ UNCHANGED <<calc, returned, available, num_spots, players, drafted_names>>

\* get_ranked_available sorts and returns to show_top_available, which prints
\* ranked[:n].
TopReturn ==
    /\ pc = "rank"
    /\ last.action = "top"
    /\ i > Len(avail)
    /\ ranked' = SortDesc(ranked)
    /\ shown' = Take(ranked', TopN(last.arg))
    /\ pc' = "prompt"
    /\ last' = [last EXCEPT !.out = "Shown"]
    /\ NoteReturned(ranked')
    /\ UNCHANGED <<calc, available, num_spots, players, drafted_names, pre, avail,
                   matches, i, current_wins, cat_wins, ci, cj, cat_values>>

\* ---- show_category_values (lines 359-387) ----

TopForCats == 50
CatRows == 5

\* `cats`: show_category_values() first calls get_ranked_available.
CmdCats ==
    /\ AtPrompt
    /\ Begin("cats", <<>>, "none", "none")
    /\ EnterRanked
    /\ UNCHANGED <<calc, returned, available, num_spots, players, drafted_names>>

\* get_ranked_available sorts and returns to show_category_values, which takes
\* the roster's current expected wins (lines 368-369) and enters its loops.
CatsRanked ==
    /\ pc = "rank"
    /\ last.action = "cats"
    /\ i > Len(avail)
    /\ ranked' = SortDesc(ranked)
    /\ cat_wins' = get_expected_wins(Objects(players), num_spots)
    /\ ci' = 1
    /\ cj' = 1
    /\ cat_values' = <<>>
    /\ pc' = "cats"
    /\ NoteReturned(ranked')
    /\ UNCHANGED <<calc, available, num_spots, players, drafted_names, last, pre,
                   avail, matches, i, current_wins, shown>>

\* Line 378: the next of ranked[:50] is appended to the roster.
CatsAppend ==
    /\ pc = "cats"
    /\ ci <= Len(CatsShown)
    /\ cj <= Len(Take(ranked, TopForCats))
    /\ players' = Append(players, ranked[cj][1])
    /\ pc' = "cats_add"
    /\ UNCHANGED <<calc, returned, available, num_spots, drafted_names, last, pre, avail,
                   matches, i, current_wins, ranked, shown, cat_wins, ci, cj,
                   cat_values>>

\* Lines 379-382: the category's improvement is taken and the player popped.
CatsPop ==
    /\ pc = "cats_add"
    /\ LET cat == CatsShown[ci]
           new_wins == get_expected_wins(Objects(players), num_spots)
           cat_improvement == new_wins[cat] - cat_wins[cat]
       IN  cat_values' = Append(cat_values, <<ranked[cj][1], cat_improvement>>)
    /\ players' = PopLast(players)
    /\ cj' = cj + 1
    /\ pc' = "cats"
    /\ UNCHANGED <<calc, returned, available, num_spots, drafted_names, last, pre, avail,
                   matches, i, current_wins, ranked, shown, cat_wins, ci>>

\* Lines 384-387: the category's values are sorted and the first five printed;
\* after the last category the command is over.
CatsNextCat ==
    /\ pc = "cats"
    /\ ci <= Len(CatsShown)
    /\ cj > Len(Take(ranked, TopForCats))
    /\ shown' = Append(shown, <<CatsShown[ci], Take(SortDesc(cat_values), CatRows)>>)
    /\ cat_values' = <<>>
    /\ cj' = 1
    /\ ci' = ci + 1
    /\ pc' = IF ci = Len(CatsShown) THEN "prompt" ELSE "cats"
    /\ last' = IF ci = Len(CatsShown) THEN [last EXCEPT !.out = "Shown"] ELSE last
    /\ UNCHANGED <<calc, returned, available, num_spots, players, drafted_names, pre, avail,
                   matches, i, current_wins, ranked, cat_wins>>

\* ---- search (lines 444-457) ----

SearchRows == 10

\* What is typed after `search`.
SearchArgs == {<<"A">>, <<"o">>, NoSuchName}

\* [p for p in self.available
\*    if term in p.name.lower() and p.name not in self.drafted_names]
SearchMatches(term, dn) ==
    LET keep(k) == /\ IsSubstring(term, lower(available[k].name))
                   /\ ~IsDrafted(available[k].name, dn)
    IN  SelectSeq([k \in DOMAIN available |-> k], keep)

\* `search <term>`
CmdSearch(arg) ==
    /\ AtPrompt
    /\ LET term == lower(arg)
           found == SearchMatches(term, drafted_names)
       IN  /\ Begin("search", arg, IF found = <<>> THEN "NoMatches" ELSE "Found",
                    "none")
           /\ matches' = Take(found, SearchRows)
           /\ pc' = IF found = <<>> THEN "prompt" ELSE "search"
           /\ i' = IF found = <<>> THEN 0 ELSE 1
    /\ avail' = <<>>
    /\ current_wins' = 0
    /\ ranked' = <<>>
    /\ shown' = <<>>
    /\ cat_wins' = <<>>
    /\ ci' = 0
    /\ cj' = 0
    /\ cat_values' = <<>>
    /\ UNCHANGED <<calc, returned, available, num_spots, players, drafted_names>>

\* The loop over matches[:10] is over.
SearchDone ==
    /\ pc = "search"
    /\ i > Len(matches)
    /\ pc' = "prompt"
    /\ UNCHANGED <<calc, returned, available, num_spots, players, drafted_names, last, pre,
                   avail, matches, i, current_wins, ranked, shown, cat_wins,
                   ci, cj, cat_values>>

\* ---- roster, quit, and the rest of the loop ----

\* `roster`: get_roster_summary() (lines 208-247) prints the projections and
\* the expected wins.
CmdRoster ==
    /\ AtPrompt
    /\ Begin("roster", <<>>, "Shown", "none")
    /\ shown' = <<get_weekly_projections(Objects(players), num_spots),
                  get_expected_wins(Objects(players), num_spots)>>
    /\ UNCHANGED <<avail, matches, i, current_wins, ranked, cat_wins, ci, cj,
                   cat_values>>
    /\ pc' = "prompt"
    /\ UNCHANGED <<calc, returned, available, num_spots, players, drafted_names>>

\* `quit` / `exit`, or EOF / an interrupt at the prompt: the loop is left.
CmdQuit ==
    /\ AtPrompt
    /\ \E a \in {"quit", "exit", "eof"} : Begin(a, <<>>, "Goodbye", "none")
    /\ ClearLocals
    /\ pc' = "ended"
    /\ UNCHANGED <<calc, returned, available, num_spots, players, drafted_names>>

\* `draft`, `take` or `search` with nothing after it: a usage line.
CmdUsage ==
    /\ AtPrompt
    /\ \E a \in {"draft", "take", "search"} : Begin(a, <<>>, "Usage", "none")
    /\ ClearLocals
    /\ pc' = "prompt"
    /\ UNCHANGED <<calc, returned, available, num_spots, players, drafted_names>>

\* Any other command word, with or without an argument: "Unknown command"
\* and the usage hint (lines 459-461).
CmdUnknown(word) ==
    /\ AtPrompt
    /\ Branch(word) = "unknown"
    /\ BeginTyped(word, "unknown", <<>>, "Unknown", "none")
    /\ ClearLocals
    /\ pc' = "prompt"
    /\ UNCHANGED <<calc, returned, available, num_spots, players, drafted_names>>

\* ---- the start of the program (lines 468-476) ----

\* Line 472: print(tool.roster.get_roster_summary()), before any command.
MainRoster ==
    /\ pc = "main"
    /\ BeginTyped(<<>>, "roster", <<>>, "Shown", "none")
    /\ shown' = <<get_weekly_projections(Objects(players), num_spots),
                  get_expected_wins(Objects(players), num_spots)>>
    /\ UNCHANGED <<avail, matches, i, current_wins, ranked, cat_wins, ci, cj,
                   cat_values>>
    /\ pc' = "main_top"
    /\ UNCHANGED <<calc, returned, available, num_spots, players, drafted_names>>

\* The number main passes to show_top_available, as `top` would be given it.
MainTopArg == <<"1", "5">>

\* Line 473: tool.show_top_available(15) calls get_ranked_available; when it
\* has printed its rows (TopReturn), run_interactive is at its first prompt.
MainTop ==
    /\ pc = "main_top"
    /\ BeginTyped(<<>>, "top", MainTopArg, "none", "none")
    /\ EnterRanked
    /\ UNCHANGED <<calc, returned, available, num_spots, players, drafted_names>>

Next ==
    \/ MainRoster
    \/ MainTop
    \/ \E word \in TypedWords, arg \in ArgNames : CmdDraft(word, arg)
    \/ \E arg \in ArgNames : CmdTake(arg)
    \/ \E arg \in ArgNames : RemovePlayer(arg)
    \/ \E arg \in TopArgs : CmdTop(arg)
    \/ TopReturn
    \/ MVFull
    \/ MVAppend
    \/ MVPop
    \/ CmdCats
    \/ CatsRanked
    \/ CatsAppend
    \/ CatsPop
    \/ CatsNextCat
    \/ \E arg \in SearchArgs : CmdSearch(arg)
    \/ SearchDone
    \/ CmdRoster
    \/ CmdQuit
    \/ CmdUsage
    \/ \E word \in TypedWords : CmdUnknown(word)

Spec == Init /\ [][Next]_vars

\* ------------------------------------------------------------------------
\* Direct calls of calculate_marginal_value (lines 270-287), outside the
\* command loop
\* ------------------------------------------------------------------------

\* No command has run: the history and the locals of the commands are empty.
NoCommand ==
    /\ last = [action |-> "none", arg |-> <<>>, out |-> "none", ret |-> "none",
               word |-> <<>>]
    /\ pre = [players |-> <<>>, drafted_names |-> {}]
    /\ avail = <<>>
    /\ matches = <<>>
    /\ i = 0
    /\ current_wins = 0
    /\ ranked = <<>>
    /\ shown = <<>>
    /\ cat_wins = <<>>
    /\ ci = 0
    /\ cj = 0
    /\ cat_values = <<>>
    /\ returned = <<>>

\* The candidates: rows around the replacement level (R 77, HR 21, RBI 76,
\* SO 143, TB 235, SB 11, OBP .312), each statistic at it or away from it.
Candidates ==
    {Row(<<"C", "a">>, 600, r, hr, rbi, so, tb, sb, obp) :
        r \in {52, 77, 102}, hr \in {21, 31}, rbi \in {76, 101},
        so \in {93, 143, 193}, tb \in {235, 285}, sb \in {11, 21},
        obp \in {312, 342}}

\* The players already in the pool: the first MaxSpots rows of Universe.
Teammates == SubSeq(Universe, 1, MaxSpots)

\* A tool whose pool is the teammates and one candidate; the first players of
\* the pool, up to num_spots of them, have been drafted, each by its name.
InitMarginalValue ==
    /\ \E c \in Candidates :
          available = [k \in 1..(Len(Teammates) + 1) |->
                          IF k <= Len(Teammates) THEN Player(Teammates[k])
                          ELSE Player(c)]
    /\ num_spots \in 1..MaxSpots
    /\ \E n \in 0..num_spots :
          /\ \A k \in 1..n : FirstMatch(available[k].name) = k
          /\ players = [k \in 1..n |-> k]
    /\ drafted_names = {available[players[k]].name : k \in DOMAIN players}
    /\ pc = "call"
    /\ calc = [op |-> "none"]
    /\ NoCommand

\* calculate_marginal_value(player) for the candidate, the last player of the
\* pool: the whole call.
CallMarginalValue ==
    /\ pc = "call"
    /\ calc.op = "none"
    /\ LET player == Len(available)
       IN  IF RosterIsFull(players, num_spots)
           THEN /\ players' = players
                /\ calc' = [op |-> "calculate_marginal_value",
                            player |-> player, ret |-> 0]
           ELSE LET wins == TotalWins(players)
                    added == Append(players, player)
                    new_wins == TotalWins(added)
                IN  /\ players' = PopLast(added)
                    /\ calc' = [op |-> "calculate_marginal_value",
                                player |-> player, ret |-> new_wins - wins]
    /\ UNCHANGED <<available, num_spots, drafted_names, pc, last, pre, avail,
                   matches, i, current_wins, ranked, shown, cat_wins, ci, cj,
                   cat_values, returned>>

NextMarginalValue == CallMarginalValue

SpecMarginalValue == InitMarginalValue /\ [][NextMarginalValue]_vars

\* ------------------------------------------------------------------------
\* Direct calls of win_probability (lines 68-82) under one configured
\* standard deviation
\* ------------------------------------------------------------------------

\* The calls made under one configuration.
MaxCalls == 2

\* Standard deviations a configuration may hold, in hundredths: those of SB,
\* R and TB, and a zero and a negative one.  Nothing in the tool checks them.
SdValues == {WEEKLY_SD.SB, WEEKLY_SD.R, WEEKLY_SD.TB, 0, 0 - WEEKLY_SD.R}

\* Means, in hundredths: around the league averages of R and SO, and far
\* from them.
MyMeans == {0, 500, 2000, 2896, 2897, 3500, 5011, 6000, 100000}
OppMeans == {LEAGUE_AVG_WEEKLY.R, LEAGUE_AVG_WEEKLY.SO}

\* win_probability is a function of the module: no file is loaded.
InitWinProbability ==
    /\ calc = [op |-> "win_probability", calls |-> <<>>]
    /\ available = <<>>
    /\ num_spots = 1
    /\ players = <<>>
    /\ drafted_names = {}
    /\ pc = "call"
    /\ NoCommand

\* win_probability(my_mean, opp_mean, sd, lower_is_better): the value
\* returned, or the ZeroDivisionError raised.
CallWinProbability(my_mean, opp_mean, sd, lower_is_better) ==
    /\ pc = "call"
    /\ calc.op = "win_probability"
    /\ Len(calc.calls) < MaxCalls
    /\ \A k \in DOMAIN calc.calls :
          /\ calc.calls[k].sd = sd
          /\ calc.calls[k].lower_is_better = lower_is_better
    /\ LET call == [my_mean |-> my_mean, opp_mean |-> opp_mean, sd |-> sd,
                    lower_is_better |-> lower_is_better]
           result ==
               IF WinProbabilityRaises(sd)
               THEN [raised |-> "ZeroDivisionError", ret |-> 0]
               ELSE [raised |-> "none",
                     ret |-> win_probability(my_mean, opp_mean, sd,
                                             lower_is_better)]
       IN  calc' = [calc EXCEPT !.calls = Append(@, call @@ result)]
    /\ UNCHANGED <<available, num_spots, players, drafted_names, pc, last, pre,
                   avail, matches, i, current_wins, ranked, shown, cat_wins,
                   ci, cj, cat_values, returned>>

NextWinProbability ==
    \E my_mean \in MyMeans, opp_mean \in OppMeans, sd \in SdValues,
       lower_is_better \in BOOLEAN :
        CallWinProbability(my_mean, opp_mean, sd, lower_is_better)

SpecWinProbability == InitWinProbability /\ [][NextWinProbability]_vars

\* ------------------------------------------------------------------------
\* Direct calls of draft_player (lines 305-323) and of the roster's
\* get_weekly_projections (lines 157-181), the projections in floats
\* ------------------------------------------------------------------------

\* A file of three players of different statistics: "Cy", the first "Al" and
\* "Éd" of Universe.
OrderFile == <<Universe[1], Universe[4], Universe[6]>>

\* A file of two players with 50000 total bases, 2000 a week, and a third
\* with 285; every other statistic of the three is at the replacement level.
SaturatedFile ==
    <<Row(<<"R", "a">>, 600, 77, 21, 76, 143, 50000, 11, 312),
      Row(<<"R", "b">>, 600, 77, 21, 76, 143, 50000, 11, 312),
      Row(<<"C", "a">>, 600, 77, 21, 76, 143, 285, 11, 312)>>

ProjectionFiles == {OrderFile, SaturatedFile}

\* A tool that has loaded one of the files, as in Init.
InitProjections ==
    /\ \E f \in ProjectionFiles :
          available = [k \in DOMAIN f |-> Player(f[k])]
    /\ num_spots \in (1..MaxSpots) \cup {NUM_ROSTER_SPOTS}
    /\ players = <<>>
    /\ drafted_names = {}
    /\ pc = "call"
    /\ calc = [op |-> "none"]
    /\ NoCommand

\* draft_player(player_name): the whole call.  The ValueError of add_player
\* comes out of it to the caller.
CallDraftPlayer(player_name) ==
    /\ pc = "call"
    /\ LET d == draft_player(player_name)
       IN  /\ players' = d.players
           /\ drafted_names' = d.drafted_names
           /\ last' = [action |-> "draft", arg |-> player_name, out |-> d.out,
                       ret |-> d.ret, word |-> <<>>]
    /\ pre' = [players |-> players, drafted_names |-> drafted_names]
    /\ calc' = [op |-> "none"]
    /\ UNCHANGED <<available, num_spots, pc, avail, matches, i, current_wins,
                   ranked, shown, cat_wins, ci, cj, cat_values, returned>>

\* roster.get_weekly_projections(): the whole call.
CallWeeklyProjections ==
    /\ pc = "call"
    /\ calc.op = "none"
    /\ calc' = [op |-> "get_weekly_projections",
                ret |-> FloatProjections(Objects(players), num_spots)]
    /\ UNCHANGED <<available, num_spots, players, drafted_names, pc, last, pre,
                   avail, matches, i, current_wins, ranked, shown, cat_wins,
                   ci, cj, cat_values, returned>>

NextProjections ==
    \/ \E player_name \in ArgNames : CallDraftPlayer(player_name)
    \/ CallWeeklyProjections

SpecProjections == InitProjections /\ [][NextProjections]_vars

\* ------------------------------------------------------------------------
\* Two calls of calculate_marginal_value (lines 270-287) running at once on
\* the tool's one roster, their statements interleaved in any order
\* ------------------------------------------------------------------------

Threads == {1, 2}

\* A call that has not started: it is at the check of line 276.  Inside
\* get_weekly_projections, read is the next read of self.players (0 the len
\* of line 165, 1..6 the sums of line 172, 7 the sum of line 177), and
\* num_drafted and totals are its locals.
NewCall(player) ==
    [pc |-> "check", player |-> player, current_wins |-> 0, new_wins |-> 0,
     ret |-> 0, read |-> 0, num_drafted |-> 0, totals |-> <<>>]

\* The categories of line 171, in its order.
CountingCats == SubSeq(Cats, 1, 6)

\* A tool that has drafted the first players of its pool, each by its own
\* name (draft_player takes the first row of a name, whatever its case), and
\* two calls for two different players that are not on the roster (thread 1
\* has the earlier row: the two threads run the same code).
InitConcurrent ==
    /\ \E f \in PoolFiles : available = [k \in DOMAIN f |-> Player(f[k])]
    /\ num_spots \in 1..MaxSpots
    /\ \E n \in 0..num_spots :
          /\ n + 2 <= Len(available)
          /\ \A k \in 1..n : FirstMatch(available[k].name) = k
          /\ players = [k \in 1..n |-> k]
    /\ drafted_names = {available[players[k]].name : k \in DOMAIN players}
    /\ \E a \in DOMAIN available, b \in DOMAIN available :
          /\ a > Len(players)
          /\ b > Len(players)
          /\ a < b
          /\ calc = [op |-> "concurrent", roster |-> players,
                     call |-> <<NewCall(a), NewCall(b)>>]
    /\ pc = "call"
    /\ NoCommand

\* The step of thread t leaves everything but the roster and the calls alone.
ThreadFrame ==
    UNCHANGED <<available, num_spots, drafted_names, pc, last, pre, avail,
                matches, i, current_wins, ranked, shown, cat_wins, ci, cj,
                cat_values, returned>>

At(t, where) ==
    /\ pc = "call"
    /\ calc.op = "concurrent"
    /\ calc.call[t].pc = where

\* Thread t is inside the get_expected_wins of line 280 or of line 284, and
\* the next read of self.players in get_weekly_projections is read r.
Reading(t, r) ==
    /\ At(t, "current") \/ At(t, "new")
    /\ calc.call[t].read = r

\* Lines 276-277: the roster is full, return 0.0; or go on.
ThreadCheck(t) ==
    /\ At(t, "check")
    /\ calc' = IF RosterIsFull(players, num_spots)
               THEN [calc EXCEPT !.call[t].pc = "done", !.call[t].ret = 0]
               ELSE [calc EXCEPT !.call[t].pc = "current"]
    /\ players' = players
    /\ ThreadFrame

\* Line 165: num_drafted = len(self.players)
ThreadLen(t) ==
    /\ \E r \in {0} : Reading(t, r)
    /\ calc' = [calc EXCEPT !.call[t].read = 1,
                            !.call[t].num_drafted = Len(players)]
    /\ players' = players
    /\ ThreadFrame

\* Lines 172-174, once for each counting category: the sum over the players
\* the list holds now, and the replacement players for the spots that were
\* empty at line 165.  The list is changed by the other thread only at its
\* end, by one append and one pop, so what the iteration of the sum sees is
\* the list as it is at one moment.
ThreadTotal(t) ==
    /\ \E r \in 1..6 : Reading(t, r)
    /\ LET c == calc.call[t]
           cat == CountingCats[c.read]
           ps == Objects(players)
           total == SumSeq([k \in DOMAIN ps |-> ps[k].weekly[cat]])
                    + (num_spots - c.num_drafted) * replacement.weekly[cat]
       IN  calc' = [calc EXCEPT !.call[t].read = c.read + 1,
                                !.call[t].totals = Append(c.totals, total)]
    /\ players' = players
    /\ ThreadFrame

\* Lines 177-179, and the rest of get_expected_wins, which reads the roster
\* no more: the wins are line 280's current_wins or line 284's new_wins.
ThreadOBP(t) ==
    /\ \E r \in {7} : Reading(t, r)
    /\ LET c == calc.call[t]
           ps == Objects(players)
           obp_sum == SumSeq([k \in DOMAIN ps |-> ps[k].obp])
                      + (num_spots - c.num_drafted) * replacement.obp
           projections ==
               [cat \in CatSet |->
                   IF cat = "OBP"
                   THEN (obp_sum * (ObpScale \div ObpField)) \div num_spots
                   ELSE c.totals[CHOOSE k \in 1..6 : CountingCats[k] = cat]]
           wins == ExpectedWinsOf(projections)["TOTAL"]
           done == [c EXCEPT !.read = 0, !.num_drafted = 0, !.totals = <<>>]
       IN  calc' = [calc EXCEPT
                       !.call[t] =
                           IF c.pc = "current"
                           THEN [done EXCEPT !.pc = "append",
                                             !.current_wins = wins]
                           ELSE [done EXCEPT !.pc = "pop",
                                             !.new_wins = wins]]
    /\ players' = players
    /\ ThreadFrame

\* Line 283: self.roster.players.append(player)
ThreadAppend(t) ==
    /\ At(t, "append")
    /\ players' = Append(players, calc.call[t].player)
    /\ calc' = [calc EXCEPT !.call[t].pc = "new"]
    /\ ThreadFrame

\* Line 285: self.roster.players.pop(), whichever player is last by now.
ThreadPop(t) ==
    /\ At(t, "pop")
    /\ players' = PopLast(players)
    /\ calc' = [calc EXCEPT !.call[t].pc = "return"]
    /\ ThreadFrame

\* Line 287: return new_wins - current_wins
ThreadReturn(t) ==
    /\ At(t, "return")
    /\ calc' = [calc EXCEPT
                   !.call[t].pc = "done",
                   !.call[t].ret = calc.call[t].new_wins
                                   - calc.call[t].current_wins]
    /\ players' = players
    /\ ThreadFrame

NextConcurrent ==
    \E t \in Threads :
        \/ ThreadCheck(t)
        \/ ThreadLen(t)
        \/ ThreadTotal(t)
        \/ ThreadOBP(t)
        \/ ThreadAppend(t)
        \/ ThreadPop(t)
        \/ ThreadReturn(t)

SpecConcurrent == InitConcurrent /\ [][NextConcurrent]_vars

\* ------------------------------------------------------------------------
\* Properties
\* ------------------------------------------------------------------------

\* The session is between commands (waiting at the prompt, or over).
BetweenCommands == pc \in {"prompt", "ended", "crashed"}

\* The last command was draft <name> or take <name>, with a name.
NamedDraftOrTake == last.action \in {"draft", "take"} /\ last.out # "Usage"

\* The pool players whose name is arg, letter case aside.
Matching(arg) ==
    {k \in DOMAIN available : lower(available[k].name) = lower(arg)}

\* The command changed neither the roster nor the drafted names.
StateAsBefore ==
    /\ players = pre.players
    /\ drafted_names = pre.drafted_names

\* A draft or take of a name that some drafted name equals, letter case
\* aside, has failed with AlreadyDrafted and changed nothing.
C1_Failed ==
    (/\ BetweenCommands
     /\ NamedDraftOrTake
     /\ \E n \in pre.drafted_names : lower(n) = lower(last.arg))
    => /\ pc = "prompt"
       /\ last.ret = "False"
       /\ last.out = "AlreadyDrafted"
       /\ StateAsBefore

\* A step that drafts the name a successful draft has just drafted fails, and
\* the roster keeps its size.
C1_Twice ==
    (/\ pc = "prompt"
     /\ last.action = "draft"
     /\ last.ret = "True"
     /\ last'.action = "draft"
     /\ last'.arg = last.arg)
    => /\ last'.ret = "False"
       /\ last'.out = "AlreadyDrafted"
       /\ Len(players') = Len(players)

\* C1: a draft or take of a name that is already in the drafted-name set, in
\* any letter case, fails with AlreadyDrafted and leaves the roster and the
\* drafted-name set as they were; and a successful draft(name) followed at
\* once by draft(name) fails with the roster size unchanged.
C1_AlreadyDrafted == [](C1_Failed) /\ [][C1_Twice]_vars

\* A draft of a drafted name typed in another letter case was refused, with
\* players on the roster.
C1_Witness ==
    /\ pc = "prompt"
    /\ last.action = "draft"
    /\ last.out = "AlreadyDrafted"
    /\ last.arg \notin pre.drafted_names
    /\ Len(pre.players) > 0

\* C2: draft(name) of an available player into a full roster raises the
\* roster-full error and changes nothing: the roster is as before and the
\* name is not in the drafted-name set.
C2_RosterFull ==
    (/\ BetweenCommands
     /\ last.action = "draft"
     /\ Matching(last.arg) # {}
     /\ \A k \in Matching(last.arg) : available[k].name \notin pre.drafted_names
     /\ Len(pre.players) >= num_spots)
    => /\ last.out = "RosterFull"
       /\ StateAsBefore
       /\ \A k \in Matching(last.arg) : available[k].name \notin drafted_names

C2_Witness ==
    /\ pc = "crashed"
    /\ last.out = "RosterFull"
    /\ Len(players) = num_spots
    /\ drafted_names # {}

\* C3: draft(name) or take(name) with a name that matches no pool player,
\* letter case aside, fails with NotFound and changes nothing.
C3_NotFound ==
    (/\ BetweenCommands
     /\ NamedDraftOrTake
     /\ Matching(last.arg) = {})
    => /\ pc = "prompt"
       /\ last.ret = "False"
       /\ last.out = "NotFound"
       /\ StateAsBefore

C3_Witness ==
    /\ pc = "prompt"
    /\ last.action = "take"
    /\ last.out = "NotFound"
    /\ players # <<>>
    /\ Cardinality(drafted_names) > Len(players)

\* C4: between commands the roster holds at most num_spots players.
C4_Capacity == BetweenCommands => Len(players) <= num_spots

\* A cats command has run to its end on a full roster.
C4_Witness ==
    /\ pc = "prompt"
    /\ last.action = "cats"
    /\ last.out = "Shown"
    /\ Len(players) = num_spots
    /\ ranked # <<>>

\* C5: between commands no two players on the roster have the same name.
C5_NoDuplicateNames ==
    BetweenCommands =>
        \A a, b \in DOMAIN players :
            a # b => available[players[a]].name # available[players[b]].name

\* The pool has two players of one name, one of them is on a roster of two,
\* and a second draft of that name was refused.
C5_Witness ==
    /\ pc = "prompt"
    /\ Len(players) = 2
    /\ last.action = "draft"
    /\ last.out = "AlreadyDrafted"
    /\ \E a, b \in DOMAIN available :
          /\ a # b
          /\ available[a].name = available[b].name
          /\ available[a].name = last.arg
          /\ \E k \in DOMAIN players : players[k] = a

\* C6: take(name) never changes the roster; a successful take adds the
\* matched player's name to the drafted-name set and nothing else, a failed
\* one leaves the set alone.
C6_TakeFrame ==
    (BetweenCommands /\ last.action = "take") =>
        /\ players = pre.players
        /\ last.ret = "True" =>
              \E k \in Matching(last.arg) :
                  /\ available[k].name \notin pre.drafted_names
                  /\ drafted_names = pre.drafted_names \cup {available[k].name}
        /\ last.ret # "True" => drafted_names = pre.drafted_names

C6_Witness ==
    /\ pc = "prompt"
    /\ last.action = "take"
    /\ last.ret = "True"
    /\ players # <<>>
    /\ Len(players) < num_spots

\* The pool players that are still available.
AvailableSet(dn) == {k \in DOMAIN available : available[k].name \notin dn}

\* One step: no name leaves the drafted-name set, no player becomes
\* available, and a successful draft or take adds exactly one new name.
C7_Step ==
    /\ drafted_names \subseteq drafted_names'
    /\ AvailableSet(drafted_names') \subseteq AvailableSet(drafted_names)
    /\ (pc = "prompt" /\ last'.ret = "True" /\ last'.action \in {"draft", "take"})
        => \E n \in drafted_names' :
              /\ n \notin drafted_names
              /\ drafted_names' = drafted_names \cup {n}

\* C7: drafting is one-way.  No step, remove_player included, takes a name
\* out of the drafted-name set or makes a player available again, and a draft
\* or take that succeeds adds exactly one name that was not in the set.
C7_OneWay == [][C7_Step]_vars

\* A drafted player was removed from the roster, and the name is still in
\* the drafted-name set.
C7_Witness ==
    /\ pc = "prompt"
    /\ last.action = "remove"
    /\ last.out = "Removed"
    /\ last.arg \in drafted_names
    /\ Len(players) < Len(pre.players)
    /\ Cardinality(drafted_names) >= 2

\* C8: on a full roster every marginal value is exactly 0.
C8_FullRosterZero ==
    (last.action \in {"top", "cats", "search"} /\ Len(pre.players) >= num_spots)
    => /\ \A k \in DOMAIN ranked : ranked[k][2] = 0
       /\ last.action = "search" => \A k \in DOMAIN shown : shown[k][2] = 0

C8_Witness ==
    /\ pc = "prompt"
    /\ last.action = "top"
    /\ Len(players) = num_spots
    /\ Len(ranked) >= 2
    /\ \A k \in DOMAIN ranked : ranked[k][2] = 0

\* calculate_marginal_value has returned to its caller, or
\* get_ranked_available has.
AfterMVReturn == pc \in {"rank", "search"} /\ i > 1
AfterRankedReturn ==
    \/ pc = "prompt" /\ last.action = "top"
    \/ pc = "cats" /\ ci = 1 /\ cj = 1

\* C9: after calculate_marginal_value or get_ranked_available returns, the
\* roster's player sequence and the drafted-name set are what they were
\* before the call.
C9_NoMutation == (AfterMVReturn \/ AfterRankedReturn) => StateAsBefore

\* A ranking with a non-zero value was made over a roster that was neither
\* empty nor full.
C9_Witness ==
    /\ pc = "prompt"
    /\ last.action = "top"
    /\ players # <<>>
    /\ Len(players) < num_spots
    /\ \E k \in DOMAIN ranked : ranked[k][2] # 0

\* The marginal value of the pool player p against the roster ps.
MarginalValue(ps, p) ==
    IF Len(ps) >= num_spots THEN 0
    ELSE TotalWins(Append(ps, p)) - TotalWins(ps)

\* C10: get_ranked_available returns exactly the pool players whose names are
\* not in the drafted-name set, each once, each with its marginal value
\* against the current roster, in order of non-increasing marginal value.
C10_Ranked ==
    AfterRankedReturn =>
        /\ {ranked[k][1] : k \in DOMAIN ranked} = AvailableSet(drafted_names)
        /\ Len(ranked) = Cardinality(AvailableSet(drafted_names))
        /\ \A k \in DOMAIN ranked :
              /\ available[ranked[k][1]].name \notin drafted_names
              /\ ranked[k][2] = MarginalValue(players, ranked[k][1])
        /\ \A k \in 1..(Len(ranked) - 1) : ranked[k][2] >= ranked[k + 1][2]

\* A ranking of at least two players, not in pool order, made after a draft
\* and a take.
C10_Witness ==
    /\ pc = "prompt"
    /\ last.action = "top"
    /\ players # <<>>
    /\ Cardinality(drafted_names) > Len(players)
    /\ Len(ranked) >= 2
    /\ ranked[1][2] > ranked[2][2]
    /\ ranked[1][1] > ranked[2][1]

\* ---- the team's projections and expected wins ----

\* The counting categories: every category but OBP.
Counting == CatSet \ {"OBP"}

\* The `roster` command has printed the projections (shown[1]) and the
\* expected wins (shown[2]) of the roster.
RosterShown == pc = "prompt" /\ last.action = "roster"

\* C11 as stated: the projections of an empty roster have each counting
\* category at the replacement player's weekly rate, and OBP at the
\* replacement OBP.  This fails for every num_spots other than 1 (the tool's
\* own NUM_ROSTER_SPOTS is 9).
C11_Original ==
    (RosterShown /\ players = <<>>) =>
        /\ \A cat \in Counting : shown[1][cat] = replacement.weekly[cat]
        /\ shown[1]["OBP"] = replacement.weekly["OBP"]

\* C11 (amended): the projections of an empty roster are those of num_spots
\* replacement players: every counting category equals num_spots times the
\* replacement player's weekly rate, and OBP equals the replacement OBP.
C11_EmptyRoster ==
    (RosterShown /\ players = <<>>) =>
        /\ \A cat \in Counting :
              shown[1][cat] = num_spots * replacement.weekly[cat]
        /\ shown[1]["OBP"] = replacement.weekly["OBP"]

\* The projections of an empty roster of more than one spot were printed.
C11_Witness ==
    /\ RosterShown
    /\ players = <<>>
    /\ num_spots >= 2
    /\ shown[1]["R"] > replacement.weekly["R"]

\* ---- a player above the replacement level ----

\* The player p is at least as good as the replacement player in every
\* category (no higher in strikeouts), and better in one.
Dominates(p) ==
    /\ \A cat \in CatSet \ {"SO"} : p.weekly[cat] >= replacement.weekly[cat]
    /\ p.weekly["SO"] <= replacement.weekly["SO"]
    /\ \/ \E cat \in CatSet \ {"SO"} :
              p.weekly[cat] > replacement.weekly[cat]
       \/ p.weekly["SO"] < replacement.weekly["SO"]

\* calculate_marginal_value was called on a roster with an open spot.
CalledOnOpenRoster ==
    /\ calc.op = "calculate_marginal_value"
    /\ Len(players) < num_spots

\* C12, the sums and the probabilities taken exactly: the marginal value of
\* a player who dominates the replacement player, for a roster with an open
\* spot, is at least 0: adding that player never decreases the roster's
\* total expected wins.
C12_DominantNonNegative ==
    (CalledOnOpenRoster /\ Dominates(available[calc.player])) =>
        /\ calc.ret >= 0
        /\ TotalWins(Append(players, calc.player)) >= TotalWins(players)

\* The call was made for a dominating candidate who is better in strikeouts
\* only, on a roster that was neither empty nor full, and the value is
\* positive.
C12_Witness ==
    /\ CalledOnOpenRoster
    /\ players # <<>>
    /\ Dominates(available[calc.player])
    /\ \A cat \in CatSet \ {"SO"} :
          available[calc.player].weekly[cat] = replacement.weekly[cat]
    /\ calc.ret > 0

\* draft_player has just added a player who dominates the replacement player.
DraftedDominant ==
    /\ last.action = "draft"
    /\ last.out = "Drafted"
    /\ Dominates(available[players[Len(players)]])

WPCalls == IF calc.op = "win_probability" THEN calc.calls ELSE <<>>

Diff(c) == c.my_mean - c.opp_mean

\* C13: for a fixed positive sd, win_probability does not decrease when
\* my_mean - opp_mean grows if lower_is_better is false, and does not
\* increase if it is true; with equal means it returns 0.5 either way.
C13_Monotone ==
    \A a \in DOMAIN WPCalls, b \in DOMAIN WPCalls :
        LET ca == WPCalls[a]
            cb == WPCalls[b]
        IN  ca.sd > 0 =>
              /\ ca.raised = "none"
              /\ (Diff(ca) <= Diff(cb) /\ ~ca.lower_is_better)
                    => ca.ret <= cb.ret
              /\ (Diff(ca) <= Diff(cb) /\ ca.lower_is_better)
                    => ca.ret >= cb.ret
              /\ Diff(ca) = 0 => 2 * ca.ret = ProbOne

\* Under a positive sd and lower_is_better, a call with equal means was
\* followed by one with my_mean one hundredth above opp_mean, which
\* returned less.
C13_Witness ==
    /\ Len(WPCalls) = 2
    /\ WPCalls[1].sd > 0
    /\ WPCalls[1].lower_is_better
    /\ Diff(WPCalls[1]) = 0
    /\ Diff(WPCalls[2]) = 1
    /\ WPCalls[2].ret < WPCalls[1].ret

\* C15 as stated: no win probability is computed from a standard deviation
\* that is zero or negative: the configuration is refused.  The code has no
\* such check: a negative sd is computed with, and a zero one ends in a
\* ZeroDivisionError at the first call.
C15_FatalConfigError ==
    \A k \in DOMAIN WPCalls :
        WPCalls[k].sd <= 0 => WPCalls[k].raised = "FatalConfigError"

\* ---- the command loop ----

\* C14: after a line whose first word is, in lower case, none of the command
\* words, the usage hint has been printed, the roster and the drafted names
\* are as before, and the loop is at the prompt for the next command.
C14_UnknownCommand ==
    (/\ BetweenCommands
     /\ last.word # <<>>
     /\ \A a \in DOMAIN CommandWord : lower(last.word) # CommandWord[a]) =>
        /\ last.out = "Unknown"
        /\ StateAsBefore
        /\ pc = "prompt"

\* "drafts" was typed with a player on the roster and another name taken.
C14_Witness ==
    /\ pc = "prompt"
    /\ last.out = "Unknown"
    /\ last.word = <<"d", "r", "a", "f", "t", "s">>
    /\ players # <<>>
    /\ Cardinality(drafted_names) > Len(players)

\* ---- ranking twice ----

\* C16: get_ranked_available called again, with the roster and the drafted
\* names as they were at the call before, returns the same sequence of
\* players and marginal values; and in every ranking returned, players of
\* equal marginal value are in pool order.
C16_SameRanking ==
    /\ Len(returned) = 2 => returned[1] = returned[2]
    /\ \A n \in DOMAIN returned :
          \A j \in DOMAIN returned[n], k \in DOMAIN returned[n] :
              (j < k /\ returned[n][j][2] = returned[n][k][2])
                  => returned[n][j][1] < returned[n][k][1]

\* A second ranking was returned, of three players or more, not in pool
\* order, two of them of equal non-zero value, for a roster with a player
\* and an open spot.
C16_Witness ==
    /\ Len(returned) = 2
    /\ players # <<>>
    /\ Len(returned[2]) >= 3
    /\ \E j \in DOMAIN returned[2], k \in DOMAIN returned[2] :
          /\ j < k
          /\ returned[2][j][2] = returned[2][k][2]
          /\ returned[2][j][2] # 0
    /\ \E j \in DOMAIN returned[2], k \in DOMAIN returned[2] :
          /\ j < k
          /\ returned[2][j][1] > returned[2][k][1]

\* ---- one spot, two players ----

\* The tool has one roster spot, nobody on the roster, nobody drafted, and
\* the pool of LeagueFile: B ("Lg", every statistic at the league average)
\* and then A ("Rn", B with 1000 runs a week).
LeaguePool ==
    /\ available = [k \in DOMAIN LeagueFile |-> Player(LeagueFile[k])]
    /\ num_spots = 1
    /\ players = <<>>
    /\ drafted_names = {}

\* C17: with one roster spot, an empty roster and the pool of B and A,
\* get_ranked_available lists A and then B, and the marginal value of A is
\* greater than that of B.
C17_RunsRankFirst ==
    (AfterRankedReturn /\ LeaguePool) =>
        /\ Len(ranked) = 2
        /\ available[ranked[1][1]].name = <<"R", "n">>
        /\ available[ranked[2][1]].name = <<"L", "g">>
        /\ ranked[1][2] > ranked[2][2]

\* `top` has ranked that pool, A half a win above B.
C17_Witness ==
    /\ pc = "prompt"
    /\ last.action = "top"
    /\ LeaguePool
    /\ Len(ranked) = 2
    /\ 2 * (ranked[1][2] - ranked[2][2]) = ProbOne

\* ---- marginal value as a difference of slates ----

\* The slate of a roster: its players, then one replacement player for each
\* open spot.
Slate(ps) ==
    Objects(ps) \o [k \in 1..(num_spots - Len(ps)) |-> replacement]

\* The total expected wins of a slate of num_spots players: each counting
\* category summed over the slate, OBP averaged over it, each compared with
\* the league average.
SlateTotal(slate) ==
    LET proj(cat) ==
            IF cat = "OBP"
            THEN (SumSeq([k \in DOMAIN slate |-> slate[k].obp])
                      * (ObpScale \div ObpField)) \div Len(slate)
            ELSE SumSeq([k \in DOMAIN slate |-> slate[k].weekly[cat]])
    IN  SumSeq([k \in DOMAIN Cats |->
                   win_probability(proj(Cats[k]), LEAGUE_AVG_WEEKLY[Cats[k]],
                                   WEEKLY_SD[Cats[k]], Cats[k] = "SO")])

\* The pair (player, value) that calculate_marginal_value last returned to
\* its caller.
LastReturned == IF LoopPc = "rank" THEN ranked[i - 1] ELSE shown[i - 1]

\* C18: inside calculate_marginal_value the hypothetical roster is the real
\* one with the candidate appended, one spot more filled and one spot fewer
\* left to the replacement player; and for a roster with an open spot the
\* value returned is the total expected wins of the hypothetical slate minus
\* that of the real one.
C18_Difference ==
    /\ pc = "mv" =>
          /\ players = Append(pre.players, Work[i])
          /\ Len(Slate(players)) = num_spots
          /\ num_spots - Len(players) = (num_spots - Len(pre.players)) - 1
    /\ (AfterMVReturn /\ Len(players) < num_spots) =>
          LastReturned[2] = SlateTotal(Slate(Append(players, LastReturned[1])))
                            - SlateTotal(Slate(players))

\* A negative value was returned for a roster with a player and an open spot.
C18_Witness ==
    /\ AfterMVReturn
    /\ players # <<>>
    /\ Len(players) < num_spots
    /\ LastReturned[2] < 0

\* ---- the projections of a roster ----

\* The sum of the weekly rates in a category of a set of pool players.
RECURSIVE WeeklyOf(_, _)
WeeklyOf(S, cat) ==
    IF S = {} THEN 0
    ELSE LET k == CHOOSE x \in S : TRUE
         IN  available[k].weekly[cat] + WeeklyOf(S \ {k}, cat)

\* The sum of the OBP fields (thousandths) of a set of pool players.
RECURSIVE ObpOf(_)
ObpOf(S) ==
    IF S = {} THEN 0
    ELSE LET k == CHOOSE x \in S : TRUE
         IN  available[k].obp + ObpOf(S \ {k})

\* The players on the roster, as a set.
Rostered == {players[k] : k \in DOMAIN players}

\* C19, the sums taken exactly: the projections of a roster of
\* k <= num_spots players are, in each counting category, the sum of the players' weekly rates plus
\* (num_spots - k) times the replacement player's, and for OBP the plain mean
\* over the num_spots spots of the players' OBPs and (num_spots - k) times
\* the replacement player's, whatever the plate appearances; they are a
\* function of the set of players, whatever the order they were drafted in.
C19_Projections ==
    RosterShown =>
        LET k == Cardinality(Rostered)
        IN  /\ k = Len(players)
            /\ k <= num_spots
            /\ \A cat \in Counting :
                  shown[1][cat] = WeeklyOf(Rostered, cat)
                                  + (num_spots - k) * replacement.weekly[cat]
            /\ shown[1]["OBP"] =
                  ((ObpOf(Rostered) + (num_spots - k) * replacement.obp)
                       * (ObpScale \div ObpField)) \div num_spots

\* The projections were printed of a roster of two players of different
\* plate appearances and OBP, the later one of the pool drafted first.
C19_Witness ==
    /\ RosterShown
    /\ Len(players) = 2
    /\ players[1] > players[2]
    /\ available[players[1]].pa # available[players[2]].pa
    /\ available[players[1]].obp # available[players[2]].obp

\* The roster in the order q of its places.
Reordered(q) == [k \in DOMAIN players |-> players[q[k]]]

\* C19 as stated, for the floats of the code: the projections returned for a
\* roster are the sums of the rostered players' weekly rates plus the
\* replacement players' share, and for OBP their mean over the num_spots
\* spots, and depend on the roster's contents only: the sums taken over the
\* same players in any other order are the projections returned.
C19_OrderIndependent ==
    calc.op = "get_weekly_projections" =>
        \A q \in Permutations(DOMAIN players) :
            FloatProjections(Objects(Reordered(q)), num_spots) = calc.ret

\* ---- the expected wins of a roster ----

\* C20: the expected wins of a roster are one probability for each of the
\* seven categories R, HR, RBI, SB, SO, TB and OBP, and TOTAL: each category's
\* is the win probability of the roster's projection against the league
\* average, lower-is-better for SO alone, and TOTAL is the sum of the seven,
\* between 0 and 7.
C20_ExpectedWins ==
    RosterShown =>
        LET wins == shown[2]
            seven == {"R", "HR", "RBI", "SB", "SO", "TB", "OBP"}
        IN  /\ DOMAIN wins = seven \cup {"TOTAL"}
            /\ Cardinality(seven) = 7
            /\ \A cat \in seven :
                  /\ wins[cat] = win_probability(shown[1][cat],
                                                 LEAGUE_AVG_WEEKLY[cat],
                                                 WEEKLY_SD[cat], cat = "SO")
                  /\ wins[cat] >= 0
                  /\ wins[cat] <= ProbOne
                  /\ (cat # "SO" /\ shown[1][cat] > LEAGUE_AVG_WEEKLY[cat])
                        => 2 * wins[cat] >= ProbOne
                  /\ (cat = "SO" /\ shown[1][cat] > LEAGUE_AVG_WEEKLY[cat])
                        => 2 * wins[cat] <= ProbOne
            /\ wins["TOTAL"] = wins["R"] + wins["HR"] + wins["RBI"] + wins["SB"]
                               + wins["SO"] + wins["TB"] + wins["OBP"]
            /\ wins["TOTAL"] >= 0
            /\ wins["TOTAL"] <= 7 * ProbOne

\* The expected wins were printed of a roster that is above the league
\* average in runs and in strikeouts: likely to win the one, to lose the
\* other.
C20_Witness ==
    /\ RosterShown
    /\ players # <<>>
    /\ shown[1]["R"] > LEAGUE_AVG_WEEKLY["R"]
    /\ shown[1]["SO"] > LEAGUE_AVG_WEEKLY["SO"]
    /\ 2 * shown[2]["R"] > ProbOne
    /\ 2 * shown[2]["SO"] < ProbOne

\* ---- two calls at once ----

\* Both calls have returned.
BothDone ==
    /\ calc.op = "concurrent"
    /\ \A t \in Threads : calc.call[t].pc = "done"

\* The value calculate_marginal_value returns for the pool player p when it
\* runs alone on the roster ps.
Alone(ps, p) ==
    IF Len(ps) >= num_spots THEN 0
    ELSE SlateTotal(Slate(Append(ps, p))) - SlateTotal(Slate(ps))

\* C21 as stated: when two calls of calculate_marginal_value on the same
\* roster have both returned, whatever the order of their steps, each has
\* returned the value it returns when run alone, and the roster is what it
\* was.  The code appends to and pops from the shared list, so a call can
\* read the other's candidate on the roster, or find the roster full.
C21_Independent ==
    BothDone =>
        /\ players = calc.roster
        /\ \A t \in Threads :
              calc.call[t].ret = Alone(calc.roster, calc.call[t].player)

\* The half of C21 that does hold: the roster ends as it was.
C21_RosterRestored == BothDone => players = calc.roster

\* ---- the end of the session ----

\* C22 as stated: between commands the session is at the prompt, unless the
\* last line was quit or exit, or the input ended: a draft that fails, the
\* roster being full, is reported and the loop goes on.  The ValueError of
\* add_player is caught nowhere: it ends run_interactive.
C22_EndsOnlyOnQuit ==
    BetweenCommands =>
        \/ pc = "prompt"
        \/ pc = "ended" /\ last.action \in {"quit", "exit", "eof"}

\* The other failures of draft do return to the prompt.
C22_OtherFailures ==
    (BetweenCommands /\ last.action = "draft"
         /\ last.out \in {"NotFound", "AlreadyDrafted"}) => pc = "prompt"

\* ---- the capacity during cats ----

\* The cats command has finished.
CatsDone == pc = "prompt" /\ last.action = "cats"

\* C23 as stated: at no point of show_category_values does the roster hold
\* more than num_spots players, so the number of replacement players in a
\* projection is never negative; and when it has finished the roster is what
\* it was.  Line 378 appends without the check of line 276: on a full
\* roster every projection of the loop is taken over num_spots + 1 players
\* and -1 replacement players.
C23_CatsCapacity ==
    /\ last.action = "cats" =>
          /\ Len(players) <= num_spots
          /\ num_spots - Len(players) >= 0
    /\ CatsDone => StateAsBefore

\* The half of C23 that does hold: the roster is restored.
C23_Restored == CatsDone => StateAsBefore

\* ---- drafting the player named ----

\* The names of the pool are pairwise different strings.
DistinctNames ==
    \A j \in DOMAIN available, k \in DOMAIN available :
        j # k => available[j].name # available[k].name

\* draft <name> was typed, the name being exactly that of the pool player p,
\* not a drafted name, the roster having an open spot.
DraftOf(p) ==
    /\ BetweenCommands
    /\ last.action = "draft"
    /\ last.out # "Usage"
    /\ available[p].name = last.arg
    /\ available[p].name \notin pre.drafted_names
    /\ Len(pre.players) < num_spots

\* The draft succeeded with p itself.
Drafted(p) ==
    /\ last.ret = "True"
    /\ players = Append(pre.players, p)
    /\ drafted_names = pre.drafted_names \cup {available[p].name}

\* C24 as stated: in a pool of pairwise different names, draft <name> with
\* the name of an undrafted player p and an open spot succeeds, puts p itself
\* on the roster and p's name among the drafted names, also when another
\* player's name differs from p's in letter case only.  draft_player takes
\* the first player whose lower-cased name matches: with "al" before "Al" in
\* the pool, draft Al drafts "al", or fails when "al" is drafted.
C24_DraftsNamedPlayer ==
    DistinctNames =>
        \A p \in DOMAIN available : DraftOf(p) => Drafted(p)

\* What does hold: the same when no earlier player of the pool has p's name
\* in another letter case.
C24_FirstOfItsName ==
    DistinctNames =>
        \A p \in DOMAIN available :
            (/\ DraftOf(p)
             /\ \A k \in 1..(p - 1) :
                   lower(available[k].name) # lower(available[p].name))
                => Drafted(p)

====
